---- MODULE Spec2Model ----
(***************************************************************************)
(* The PR queue orchestrator of aieng-bot-maintain: the per-repository     *)
(* entry point process_repo_queue_cli (cli.py) and                         *)
(* QueueManager.process_repo_queue / is_timeout_approaching                *)
(* (auto_merger/queue_manager.py), run as one invocation per repository    *)
(* against one shared durable state document.                              *)
(*                                                                         *)
(* models.py, state_manager.py and pr_processor.py are not among the       *)
(* source files; RepoQueue, QueueState, StateManager and                   *)
(* PRProcessor.process_pr are modelled from the specification (sections 3, *)
(* 4.3, 4.4).  process_pr is an external decision: it returns either       *)
(* boolean.                                                                *)
(*                                                                         *)
(* The second part models the public operations of StatusPoller           *)
(* (auto_merger/status_poller.py) and WorkflowClient                       *)
(* (auto_merger/workflow_client.py), one call at a time, with the replies  *)
(* of the gh commands chosen by the environment (SpecOps).                 *)
(*                                                                         *)
(* The third part (SpecProcessor) replaces the external decision by        *)
(* process_pr as section 4.3 of the specification describes it.            *)
(* SpecFix adds the hosting platform's record of fix runs per head commit, *)
(* SpecClassify the failure classifier (classifier/classifier.py), and     *)
(* SpecTerminates the fairness under which process_repo_queue returns.     *)
(*                                                                         *)
(* Datetimes are integers counting seconds.                                *)
(***************************************************************************)
EXTENDS Integers, Sequences, FiniteSets, TLC

\* ------------------------------------------------------------------ bounds
\* PRs discovered for the first repository (the second has at most one).
MaxPRs == 2
\* Minutes the wall clock moves per Tick.
TickMinutes == 10
\* Ticks the wall clock may make.
MaxTicks == 2
\* The environment-provided budget of create_initial_state, in minutes.
BudgetMinutes == 20
\* Minutes the clock of the timeout check's own specification runs.
HorizonMinutes == 25
\* PRs of the longest queue process_repo_queue is called on repeatedly.
ScenarioPRs == 3
\* Completed process_repo_queue calls made on one in-memory state.
MaxCalls == 3
\* Checks in a status check rollup.
MaxChecks == 2
\* The largest timeout_minutes a polling operation is called with.
MaxTimeoutMinutes == 2

Repos == {"A", "B"}
\* Workflow runs.
RunIds == {1, 2}

\* The optional value: <<>> is None, <<x>> is x.
None == <<>>
Some(x) == <<x>>
IsSome(o) == Len(o) = 1
Get(o) == o[1]

VARIABLES
    now,            \* the wall clock, datetime.now(UTC), in seconds
    current_run,    \* the workflow run whose matrix jobs start now
    all_prs,        \* --all-prs: the discovered PRs of the run, all repositories
    cli_input,      \* per invocation: whether its --all-prs text parses as JSON
                    \* and what GH_TOKEN is in its environment
    exit_code,      \* per invocation: the exit status of its process, None
                    \* while it runs and when it was terminated from outside
    call,           \* the Status Poller or Workflow Client operation in
                    \* progress: its position, loop counter, the commands it
                    \* issued, its sleeps, the last reply, its locals and
                    \* its outcome
    platform,       \* the hosting platform: per PR its head commit and the
                    \* commits fix runs were started for
    durable,        \* the durable state document (None when absent)
    pc,             \* per invocation: its position in the code
    run_id,         \* per invocation: --workflow-run-id
    state,          \* per invocation: its in-memory QueueState (None before load)
    should_advance, \* per invocation: the local of process_repo_queue
    completed,      \* per invocation: what process_repo_queue returned
    resumed,        \* per invocation: it took the "Resuming" branch (history)
    calls,          \* per invocation: process_pr calls made (history)
    loop_saves,     \* per invocation: save_state calls made in the loop (history)
    timeout_check,  \* per invocation: what its is_timeout_approaching call
                    \* returned at this reading of the clock; None once the
                    \* clock has moved (history)
    advanced        \* per repository: the PR numbers of its current queue (the
                    \* one its last create_initial_state built, under the run
                    \* run_id names) whose process_pr returned should_advance =
                    \* true and whose step's save_state call has returned
                    \* (history)

\* The variables of the queue orchestrator.
queue_vars == <<now, current_run, all_prs, cli_input, exit_code, durable, pc,
                run_id, state, should_advance, completed, resumed, calls,
                loop_saves, timeout_check, advanced>>

vars == <<queue_vars, call, platform>>

\* --------------------------------------------------------------- data model

\* RepoQueue.is_complete
is_complete(queue) == queue.current_index >= Len(queue.prs)

\* RepoQueue.get_current_pr: the item under the cursor, None past the end
get_current_pr(queue) ==
    IF queue.current_index < Len(queue.prs)
    THEN Some(queue.prs[queue.current_index + 1])
    ELSE None

\* RepoQueue.advance
advance(queue) == [queue EXCEPT !.current_index = @ + 1]

\* state.repo_queues.get(repo)
queue_get(st, repo) ==
    IF repo \in DOMAIN st.repo_queues THEN Some(st.repo_queues[repo]) ELSE None

\* repo_prs = [pr for pr in all_prs if pr["repo"] == args.repo]
repo_prs(prs, repo) == SelectSeq(prs, LAMBDA pr : pr.repo = repo)

SeqRange(s) == {s[i] : i \in 1..Len(s)}

\* StateManager.create_initial_state: buckets the PRs by repository into fresh
\* queues with the cursor at 0, deadline = now + budget
create_initial_state(workflow_run_id, prs, clock) ==
    [workflow_run_id |-> workflow_run_id,
     timeout_at      |-> clock + BudgetMinutes * 60,
     repo_queues     |-> [r \in {pr.repo : pr \in SeqRange(prs)} |->
                             [prs |-> repo_prs(prs, r), current_index |-> 0]],
     completed_repos |-> <<>>]

\* StateManager.save_state: the whole document is written to the one key
save_state(st) == Some(st)

\* StateManager.load_state: the document under the key, None when absent
load_state(doc) == doc

\* StateManager.clear_state
clear_state == None

\* is_timeout_approaching with the threshold included (remaining <= 10).
is_timeout_approaching_inclusive(st, clock) ==
    LET total_seconds == st.timeout_at - clock
    IN  total_seconds <= 10 * 60

\* QueueManager.is_timeout_approaching:
\*   remaining = (timeout - now).total_seconds() / 60; return remaining < 10
\* remaining is kept as the exact quotient total_seconds / 60.
is_timeout_approaching(st, clock) ==
    LET total_seconds == st.timeout_at - clock
    IN  total_seconds < 10 * 60

\* The PRs the hosting platform has: those any run may discover.
PlatformPRs ==
    {[repo |-> "A", pr_number |-> i] : i \in 1..ScenarioPRs} \cup
    {[repo |-> "B", pr_number |-> 1]}

\* Every PR at its first head commit, no fix run started.
InitPlatform ==
    [head_sha |-> [pr \in PlatformPRs |-> 1],
     fix_runs |-> [pr \in PlatformPRs |-> <<>>]]

\* No Status Poller or Workflow Client operation is in progress.
IdleCall ==
    [op |-> "none", arg |-> None, pc |-> "idle", attempt |-> 0, cmds |-> <<>>,
     sleeps |-> <<>>,
     reply |-> None, observed |-> <<>>, locals |-> None, result |-> None,
     raised |-> "none"]

\* ------------------------------------------------------------------- Init

\* What an invocation is started with: --all-prs is a valid JSON array of the
\* discovered PRs or text json.loads rejects; GH_TOKEN is set, set to the
\* empty string, or not in the environment.
CliInputs ==
    [all_prs_json : {"valid", "malformed"}, gh_token : {"set", "empty", "unset"}]

\* The discovered list of a run: k PRs of A followed by m PRs of B.
Discovered(k, m) ==
    [i \in 1..k |-> [repo |-> "A", pr_number |-> i]] \o
    [i \in 1..m |-> [repo |-> "B", pr_number |-> i]]

Init ==
    /\ now = 0
    /\ current_run = 1
    /\ \E m \in 0..1 : all_prs = Discovered(MaxPRs, m)
    /\ cli_input \in [Repos -> CliInputs]
    /\ exit_code = [p \in Repos |-> None]
    /\ call = IdleCall
    /\ platform = InitPlatform
    /\ durable = None
    /\ pc = [p \in Repos |-> "idle"]
    /\ run_id = [p \in Repos |-> 1]
    /\ state = [p \in Repos |-> None]
    /\ should_advance = [p \in Repos |-> "none"]
    /\ completed = [p \in Repos |-> "none"]
    /\ resumed = [p \in Repos |-> FALSE]
    /\ calls = [p \in Repos |-> 0]
    /\ loop_saves = [p \in Repos |-> 0]
    /\ timeout_check = [p \in Repos |-> None]
    /\ advanced = [r \in Repos |-> {}]

\* ---------------------------------------------------------------- actions

Reset(p) ==
    /\ pc' = [pc EXCEPT ![p] = "idle"]
    /\ state' = [state EXCEPT ![p] = None]
    /\ should_advance' = [should_advance EXCEPT ![p] = "none"]
    /\ completed' = [completed EXCEPT ![p] = "none"]
    /\ resumed' = [resumed EXCEPT ![p] = FALSE]
    /\ calls' = [calls EXCEPT ![p] = 0]
    /\ loop_saves' = [loop_saves EXCEPT ![p] = 0]
    /\ timeout_check' = [timeout_check EXCEPT ![p] = None]

\* LoadOrCreate resuming whatever document it loads, without comparing run ids.
LoadOrCreate_ResumeAnyRun(p) ==
    /\ pc[p] = "idle"
    /\ IF cli_input[p].all_prs_json = "malformed" \/ cli_input[p].gh_token # "set"
       THEN /\ exit_code' = [exit_code EXCEPT ![p] = Some(1)]
            /\ UNCHANGED <<pc, run_id, state, resumed, advanced>>
       ELSE /\ exit_code' = [exit_code EXCEPT ![p] = None]
            /\ run_id' = [run_id EXCEPT ![p] = current_run]
            /\ LET loaded == load_state(durable)
                   resume == IsSome(loaded)
               IN  /\ resumed' = [resumed EXCEPT ![p] = resume]
                   /\ IF resume
                      THEN /\ state' = [state EXCEPT ![p] = loaded]
                           /\ pc' = [pc EXCEPT ![p] = "enter"]
                      ELSE /\ state' = [state EXCEPT ![p] =
                                  Some(create_initial_state(current_run,
                                           repo_prs(all_prs, p), now))]
                           /\ pc' = [pc EXCEPT ![p] = "save_new"]
                   /\ advanced' = IF resume /\ run_id[p] = current_run
                                  THEN advanced
                                  ELSE [advanced EXCEPT ![p] = {}]
    /\ UNCHANGED <<now, current_run, all_prs, cli_input, call, platform, durable,
                   should_advance, completed, calls, loop_saves, timeout_check>>

\* The matrix job of repository p starts: process_repo_queue_cli parses
\* --repo p, --workflow-run-id and --all-prs; json.loads(args.all_prs)
\* raising JSONDecodeError, or GH_TOKEN missing or empty, ends it with
\* sys.exit(1) before anything is loaded; otherwise
\*   state = load_state()
\*   if state and state.workflow_run_id == args.workflow_run_id: (resume)
\*   else: state = create_initial_state(workflow_run_id, prs=repo_prs)
LoadOrCreate(p) ==
    /\ pc[p] = "idle"
    /\ IF cli_input[p].all_prs_json = "malformed" \/ cli_input[p].gh_token # "set"
       THEN /\ exit_code' = [exit_code EXCEPT ![p] = Some(1)]
            /\ UNCHANGED <<pc, run_id, state, resumed, advanced>>
       ELSE /\ exit_code' = [exit_code EXCEPT ![p] = None]
            /\ run_id' = [run_id EXCEPT ![p] = current_run]
            /\ LET loaded == load_state(durable)
                   resume == IsSome(loaded) /\ Get(loaded).workflow_run_id = current_run
               IN  /\ resumed' = [resumed EXCEPT ![p] = resume]
                   /\ IF resume
                      THEN /\ state' = [state EXCEPT ![p] = loaded]
                           /\ pc' = [pc EXCEPT ![p] = "enter"]
                      ELSE /\ state' = [state EXCEPT ![p] =
                                  Some(create_initial_state(current_run,
                                           repo_prs(all_prs, p), now))]
                           /\ pc' = [pc EXCEPT ![p] = "save_new"]
                   /\ advanced' = IF resume /\ run_id[p] = current_run
                                  THEN advanced
                                  ELSE [advanced EXCEPT ![p] = {}]
    /\ UNCHANGED <<now, current_run, all_prs, cli_input, call, platform, durable,
                   should_advance, completed, calls, loop_saves, timeout_check>>

\* save_state(state) of the freshly created state
SaveNewState(p) ==
    /\ pc[p] = "save_new"
    /\ durable' = save_state(Get(state[p]))
    /\ pc' = [pc EXCEPT ![p] = "enter"]
    /\ UNCHANGED <<now, current_run, all_prs, cli_input, call, platform, exit_code, run_id, state, should_advance,
                   completed, resumed, calls, loop_saves, advanced,
                   timeout_check>>

\* EnterQueue listing the repository as completed when it has no queue.
EnterQueue_AppendWhenNoQueue(p) ==
    /\ pc[p] = "enter"
    /\ IF IsSome(queue_get(Get(state[p]), p))
       THEN /\ pc' = [pc EXCEPT ![p] = "loop"]
            /\ UNCHANGED <<completed, state>>
       ELSE /\ pc' = [pc EXCEPT ![p] = "returned"]
            /\ completed' = [completed EXCEPT ![p] = "true"]
            /\ state' = [state EXCEPT ![p] =
                   Some([Get(@) EXCEPT !.completed_repos = Append(@, p)])]
    /\ UNCHANGED <<now, current_run, all_prs, cli_input, call, platform, exit_code, durable, run_id,
                   should_advance, resumed, calls, loop_saves, advanced,
                   timeout_check>>

\* EnterQueue discarding the queues of the state when the repository has none.
EnterQueue_DropsQueues(p) ==
    /\ pc[p] = "enter"
    /\ IF IsSome(queue_get(Get(state[p]), p))
       THEN /\ pc' = [pc EXCEPT ![p] = "loop"]
            /\ UNCHANGED <<completed, state>>
       ELSE /\ pc' = [pc EXCEPT ![p] = "returned"]
            /\ completed' = [completed EXCEPT ![p] = "true"]
            /\ state' = [state EXCEPT ![p] =
                   Some([Get(@) EXCEPT !.repo_queues = <<>>])]
    /\ UNCHANGED <<now, current_run, all_prs, cli_input, call, platform, exit_code, durable, run_id,
                   should_advance, resumed, calls, loop_saves, advanced,
                   timeout_check>>

\* process_repo_queue: queue = state.repo_queues.get(repo); if not queue: return True
EnterQueue(p) ==
    /\ pc[p] = "enter"
    /\ IF IsSome(queue_get(Get(state[p]), p))
       THEN /\ pc' = [pc EXCEPT ![p] = "loop"]
            /\ UNCHANGED completed
       ELSE /\ pc' = [pc EXCEPT ![p] = "returned"]
            /\ completed' = [completed EXCEPT ![p] = "true"]
    /\ UNCHANGED <<now, current_run, all_prs, cli_input, call, platform, exit_code, durable, run_id, state,
                   should_advance, resumed, calls, loop_saves, advanced,
                   timeout_check>>

\* complete_repo leaving completed_repos as it was.
complete_repo_NoAppend(st, repo) == st

\* After the loop: state.completed_repos.append(repo); return True
complete_repo(st, repo) ==
    [st EXCEPT !.completed_repos = Append(@, repo)]

\* LoopTop returning false on an approaching timeout without saving.
LoopTop_NoSaveOnTimeout(p) ==
    /\ pc[p] = "loop"
    /\ LET st == Get(state[p])
           queue == st.repo_queues[p]
       IN  IF is_complete(queue) \/
              (~is_timeout_approaching(st, now) /\ ~IsSome(get_current_pr(queue)))
           THEN /\ state' = [state EXCEPT ![p] = Some(complete_repo(st, p))]
                /\ completed' = [completed EXCEPT ![p] = "true"]
                /\ pc' = [pc EXCEPT ![p] = "returned"]
                /\ UNCHANGED <<durable, loop_saves>>
           ELSE IF is_timeout_approaching(st, now)
           THEN /\ UNCHANGED <<durable, loop_saves>>
                /\ completed' = [completed EXCEPT ![p] = "false"]
                /\ pc' = [pc EXCEPT ![p] = "returned"]
                /\ UNCHANGED state
           ELSE /\ pc' = [pc EXCEPT ![p] = "call"]
                /\ UNCHANGED <<durable, loop_saves, completed, state>>
    /\ LET st == Get(state[p])
       IN  timeout_check' =
              IF is_complete(st.repo_queues[p]) THEN timeout_check
              ELSE [timeout_check EXCEPT ![p] =
                       Some(is_timeout_approaching(st, now))]
    /\ UNCHANGED <<now, current_run, all_prs, cli_input, call, platform, exit_code, run_id, should_advance, resumed,
                   calls, advanced>>

\* The top of one loop iteration: the while condition, the timeout check and
\* get_current_pr (with its defensive break).
LoopTop(p) ==
    /\ pc[p] = "loop"
    /\ LET st == Get(state[p])
           queue == st.repo_queues[p]
       IN  IF is_complete(queue) \/
              (~is_timeout_approaching(st, now) /\ ~IsSome(get_current_pr(queue)))
           THEN /\ state' = [state EXCEPT ![p] = Some(complete_repo(st, p))]
                /\ completed' = [completed EXCEPT ![p] = "true"]
                /\ pc' = [pc EXCEPT ![p] = "returned"]
                /\ UNCHANGED <<durable, loop_saves>>
           ELSE IF is_timeout_approaching(st, now)
           THEN /\ durable' = save_state(st)
                /\ loop_saves' = [loop_saves EXCEPT ![p] = @ + 1]
                /\ completed' = [completed EXCEPT ![p] = "false"]
                /\ pc' = [pc EXCEPT ![p] = "returned"]
                /\ UNCHANGED state
           ELSE /\ pc' = [pc EXCEPT ![p] = "call"]
                /\ UNCHANGED <<durable, loop_saves, completed, state>>
    /\ LET st == Get(state[p])
       IN  timeout_check' =
              IF is_complete(st.repo_queues[p]) THEN timeout_check
              ELSE [timeout_check EXCEPT ![p] =
                       Some(is_timeout_approaching(st, now))]
    /\ UNCHANGED <<now, current_run, all_prs, cli_input, call, platform, exit_code, run_id, should_advance, resumed,
                   calls, advanced>>

\* should_advance = self.pr_processor.process_pr(pr): either answer
ProcessPR(p) ==
    /\ pc[p] = "call"
    /\ \E answer \in BOOLEAN :
          should_advance' = [should_advance EXCEPT ![p] =
                                IF answer THEN "true" ELSE "false"]
    /\ calls' = [calls EXCEPT ![p] = @ + 1]
    /\ pc' = [pc EXCEPT ![p] = "save"]
    /\ UNCHANGED <<now, current_run, all_prs, cli_input, call, platform, exit_code, durable, run_id, state, completed,
                   resumed, loop_saves, timeout_check, advanced>>

\* SaveAfterPR saving only when the PR advanced (no save before the false return).
SaveAfterPR_SkipSaveOnRetry(p) ==
    /\ pc[p] = "save"
    /\ durable' = IF should_advance[p] = "true" THEN save_state(Get(state[p]))
                  ELSE durable
    /\ loop_saves' = IF should_advance[p] = "true"
                     THEN [loop_saves EXCEPT ![p] = @ + 1] ELSE loop_saves
    /\ IF should_advance[p] = "true"
       THEN /\ state' = [state EXCEPT ![p] =
                   Some([Get(@) EXCEPT !.repo_queues[p] = advance(@)])]
            /\ advanced' = [advanced EXCEPT ![p] = @ \cup
                   {Get(get_current_pr(Get(state[p]).repo_queues[p])).pr_number}]
            /\ pc' = [pc EXCEPT ![p] = "loop"]
            /\ UNCHANGED completed
       ELSE /\ completed' = [completed EXCEPT ![p] = "false"]
            /\ pc' = [pc EXCEPT ![p] = "returned"]
            /\ UNCHANGED <<state, advanced>>
    /\ UNCHANGED <<now, current_run, all_prs, cli_input, call, platform, exit_code, run_id, should_advance, resumed,
                   calls, timeout_check>>

\* SaveAfterPR moving the cursor whatever process_pr answered.
SaveAfterPR_AlwaysAdvance(p) ==
    /\ pc[p] = "save"
    /\ durable' = save_state(Get(state[p]))
    /\ loop_saves' = [loop_saves EXCEPT ![p] = @ + 1]
    /\ IF should_advance[p] \in {"true", "false"}
       THEN /\ state' = [state EXCEPT ![p] =
                   Some([Get(@) EXCEPT !.repo_queues[p] = advance(@)])]
            /\ advanced' = [advanced EXCEPT ![p] = @ \cup
                   {Get(get_current_pr(Get(state[p]).repo_queues[p])).pr_number}]
            /\ pc' = [pc EXCEPT ![p] = "loop"]
            /\ UNCHANGED completed
       ELSE /\ completed' = [completed EXCEPT ![p] = "false"]
            /\ pc' = [pc EXCEPT ![p] = "returned"]
            /\ UNCHANGED <<state, advanced>>
    /\ UNCHANGED <<now, current_run, all_prs, cli_input, call, platform, exit_code, run_id, should_advance, resumed,
                   calls, timeout_check>>

\* SaveAfterPR retrying the same PR in the same invocation after a false answer.
SaveAfterPR_RetrySameRun(p) ==
    /\ pc[p] = "save"
    /\ durable' = save_state(Get(state[p]))
    /\ loop_saves' = [loop_saves EXCEPT ![p] = @ + 1]
    /\ IF should_advance[p] = "true"
       THEN /\ state' = [state EXCEPT ![p] =
                   Some([Get(@) EXCEPT !.repo_queues[p] = advance(@)])]
            /\ advanced' = [advanced EXCEPT ![p] = @ \cup
                   {Get(get_current_pr(Get(state[p]).repo_queues[p])).pr_number}]
            /\ pc' = [pc EXCEPT ![p] = "loop"]
            /\ UNCHANGED completed
       ELSE /\ pc' = [pc EXCEPT ![p] = "loop"]
            /\ UNCHANGED <<state, advanced, completed>>
    /\ UNCHANGED <<now, current_run, all_prs, cli_input, call, platform, exit_code, run_id, should_advance, resumed,
                   calls, timeout_check>>

\* SaveAfterPR moving the cursor by two after a true answer.
SaveAfterPR_AdvanceTwice(p) ==
    /\ pc[p] = "save"
    /\ durable' = save_state(Get(state[p]))
    /\ loop_saves' = [loop_saves EXCEPT ![p] = @ + 1]
    /\ IF should_advance[p] = "true"
       THEN /\ state' = [state EXCEPT ![p] =
                   Some([Get(@) EXCEPT !.repo_queues[p] = advance(advance(@))])]
            /\ advanced' = [advanced EXCEPT ![p] = @ \cup
                   {Get(get_current_pr(Get(state[p]).repo_queues[p])).pr_number}]
            /\ pc' = [pc EXCEPT ![p] = "loop"]
            /\ UNCHANGED completed
       ELSE /\ completed' = [completed EXCEPT ![p] = "false"]
            /\ pc' = [pc EXCEPT ![p] = "returned"]
            /\ UNCHANGED <<state, advanced>>
    /\ UNCHANGED <<now, current_run, all_prs, cli_input, call, platform, exit_code, run_id, should_advance, resumed,
                   calls, timeout_check>>

\* save_state(state), then: if should_advance: queue.advance() else: return False
SaveAfterPR(p) ==
    /\ pc[p] = "save"
    /\ durable' = save_state(Get(state[p]))
    /\ loop_saves' = [loop_saves EXCEPT ![p] = @ + 1]
    /\ IF should_advance[p] = "true"
       THEN /\ state' = [state EXCEPT ![p] =
                   Some([Get(@) EXCEPT !.repo_queues[p] = advance(@)])]
            /\ advanced' = [advanced EXCEPT ![p] = @ \cup
                   {Get(get_current_pr(Get(state[p]).repo_queues[p])).pr_number}]
            /\ pc' = [pc EXCEPT ![p] = "loop"]
            /\ UNCHANGED completed
       ELSE /\ completed' = [completed EXCEPT ![p] = "false"]
            /\ pc' = [pc EXCEPT ![p] = "returned"]
            /\ UNCHANGED <<state, advanced>>
    /\ UNCHANGED <<now, current_run, all_prs, cli_input, call, platform, exit_code, run_id, should_advance, resumed,
                   calls, timeout_check>>

\* Exit comparing completed_repos with the repositories discovered for the
\* run instead of the queues of the state.
Exit_CountDiscoveredRepos(p) ==
    /\ pc[p] = "returned"
    /\ LET st == Get(state[p])
       IN  durable' = IF /\ completed[p] = "true"
                         /\ Len(st.completed_repos) =
                               Cardinality({pr.repo : pr \in SeqRange(all_prs)})
                      THEN clear_state
                      ELSE durable
    /\ Reset(p)
    /\ exit_code' = [exit_code EXCEPT ![p] = Some(0)]
    /\ UNCHANGED <<now, current_run, all_prs, cli_input, call, platform, run_id, advanced>>

\* Exit ending with status 1 when the queue was suspended.
Exit_NonZeroWhenSuspended(p) ==
    /\ pc[p] = "returned"
    /\ LET st == Get(state[p])
       IN  durable' = IF /\ completed[p] = "true"
                         /\ Len(st.completed_repos) = Cardinality(DOMAIN st.repo_queues)
                      THEN clear_state
                      ELSE durable
    /\ Reset(p)
    /\ exit_code' = [exit_code EXCEPT ![p] =
                        IF completed[p] = "true" THEN Some(0) ELSE Some(1)]
    /\ UNCHANGED <<now, current_run, all_prs, cli_input, call, platform, run_id, advanced>>

\* Back in process_repo_queue_cli: clear the document when completed and
\* len(state.completed_repos) == len(state.repo_queues); the function returns
\* and the process exits with status 0.
Exit(p) ==
    /\ pc[p] = "returned"
    /\ LET st == Get(state[p])
       IN  durable' = IF /\ completed[p] = "true"
                         /\ Len(st.completed_repos) = Cardinality(DOMAIN st.repo_queues)
                      THEN clear_state
                      ELSE durable
    /\ Reset(p)
    /\ exit_code' = [exit_code EXCEPT ![p] = Some(0)]
    /\ UNCHANGED <<now, current_run, all_prs, cli_input, call, platform, run_id, advanced>>

\* Abrupt termination of the invocation (the host's hard wall-clock limit).
Crash(p) ==
    /\ pc[p] # "idle"
    /\ Reset(p)
    /\ UNCHANGED <<now, current_run, all_prs, cli_input, call, platform, exit_code, durable, run_id, advanced>>

\* The wall clock moves.
Tick ==
    /\ now < MaxTicks * TickMinutes * 60
    /\ now' = now + TickMinutes * 60
    /\ timeout_check' = [p \in Repos |-> None]
    /\ UNCHANGED <<current_run, all_prs, cli_input, call, platform, exit_code, durable, pc, run_id, state,
                   should_advance, completed, resumed, calls, loop_saves, advanced>>

\* A later workflow run begins: invocations started from now on carry its id.
NewRun ==
    /\ current_run + 1 \in RunIds
    /\ current_run' = current_run + 1
    /\ UNCHANGED <<now, all_prs, cli_input, call, platform, exit_code, durable, pc, run_id, state, should_advance,
                   completed, resumed, calls, loop_saves, advanced,
                   timeout_check>>

Step(p) ==
    \/ LoadOrCreate(p)
    \/ SaveNewState(p)
    \/ EnterQueue(p)
    \/ LoopTop(p)
    \/ ProcessPR(p)
    \/ SaveAfterPR(p)
    \/ Exit(p)
    \/ Crash(p)

Next == (\E p \in Repos : Step(p)) \/ Tick \/ NewRun

Spec == Init /\ [][Next]_vars

\* ------------------------------------------ invocations that run to their end
\* The same invocations when none is terminated abruptly: each runs from its
\* start to its sys.exit or return.

StepOrderly(p) ==
    \/ LoadOrCreate(p)
    \/ SaveNewState(p)
    \/ EnterQueue(p)
    \/ LoopTop(p)
    \/ ProcessPR(p)
    \/ SaveAfterPR(p)
    \/ Exit(p)

NextOrderly == (\E p \in Repos : StepOrderly(p)) \/ Tick \/ NewRun

SpecOrderly == Init /\ [][NextOrderly]_vars

\* ------------------------------------------- the timeout check on its own
\* is_timeout_approaching applied to states created at clock 0 or five
\* minutes later, while the clock runs second by second past the deadline.

InitTimeout ==
    /\ now = 0
    /\ current_run = 1
    /\ all_prs = Discovered(MaxPRs, 1)
    /\ cli_input = [p \in Repos |-> [all_prs_json |-> "valid", gh_token |-> "set"]]
    /\ exit_code = [p \in Repos |-> None]
    /\ call = IdleCall
    /\ platform = InitPlatform
    /\ durable = None
    /\ pc = [p \in Repos |-> "loop"]
    /\ run_id = [p \in Repos |-> 1]
    /\ \E created \in [Repos -> {0, 5 * 60}] :
          state = [p \in Repos |->
                     Some(create_initial_state(1, repo_prs(all_prs, p), created[p]))]
    /\ should_advance = [p \in Repos |-> "none"]
    /\ completed = [p \in Repos |-> "none"]
    /\ resumed = [p \in Repos |-> FALSE]
    /\ calls = [p \in Repos |-> 0]
    /\ loop_saves = [p \in Repos |-> 0]
    /\ timeout_check = [p \in Repos |-> None]
    /\ advanced = [r \in Repos |-> {}]

\* One second passes.
TickSecond ==
    /\ now < HorizonMinutes * 60
    /\ now' = now + 1
    /\ timeout_check' = [p \in Repos |-> None]
    /\ UNCHANGED <<current_run, all_prs, cli_input, call, platform, exit_code, durable, pc, run_id, state,
                   should_advance, completed, resumed, calls, loop_saves, advanced>>

\* self.is_timeout_approaching(state)
CheckTimeout(p) ==
    /\ timeout_check' = [timeout_check EXCEPT ![p] =
                             Some(is_timeout_approaching(Get(state[p]), now))]
    /\ UNCHANGED <<now, current_run, all_prs, cli_input, call, platform, exit_code, durable, pc, run_id, state,
                   should_advance, completed, resumed, calls, loop_saves, advanced>>

NextTimeout == TickSecond \/ \E p \in Repos : CheckTimeout(p)

SpecTimeout == InitTimeout /\ [][NextTimeout]_vars

\* ------------------------- process_repo_queue called again on the same state
\* A caller holding one QueueState per repository (created at clock 0 from
\* the repository's PRs, cursor 0) calls process_repo_queue on it, and calls
\* it again on the same object after each return.

InitScenario ==
    /\ now = 0
    /\ current_run = 1
    /\ \E k \in 1..ScenarioPRs : \E m \in 0..1 : all_prs = Discovered(k, m)
    /\ cli_input = [p \in Repos |-> [all_prs_json |-> "valid", gh_token |-> "set"]]
    /\ exit_code = [p \in Repos |-> None]
    /\ call = IdleCall
    /\ platform = InitPlatform
    /\ durable = None
    /\ pc = [p \in Repos |-> "enter"]
    /\ run_id = [p \in Repos |-> 1]
    /\ state = [p \in Repos |->
                  Some(create_initial_state(1, repo_prs(all_prs, p), 0))]
    /\ should_advance = [p \in Repos |-> "none"]
    /\ completed = [p \in Repos |-> "none"]
    /\ resumed = [p \in Repos |-> FALSE]
    /\ calls = [p \in Repos |-> 0]
    /\ loop_saves = [p \in Repos |-> 0]
    /\ timeout_check = [p \in Repos |-> None]
    /\ advanced = [r \in Repos |-> {}]

\* manager.process_repo_queue(repo, state) once more, on the state the
\* previous call left.
CallAgain(p) ==
    /\ pc[p] = "returned"
    /\ Len(Get(state[p]).completed_repos) < MaxCalls
    /\ pc' = [pc EXCEPT ![p] = "enter"]
    /\ should_advance' = [should_advance EXCEPT ![p] = "none"]
    /\ completed' = [completed EXCEPT ![p] = "none"]
    /\ calls' = [calls EXCEPT ![p] = 0]
    /\ loop_saves' = [loop_saves EXCEPT ![p] = 0]
    /\ timeout_check' = [timeout_check EXCEPT ![p] = None]
    /\ UNCHANGED <<now, current_run, all_prs, cli_input, call, platform, exit_code, durable, run_id, state, resumed,
                   advanced>>

StepScenario(p) ==
    \/ EnterQueue(p)
    \/ LoopTop(p)
    \/ ProcessPR(p)
    \/ SaveAfterPR(p)
    \/ CallAgain(p)

NextScenario == (\E p \in Repos : StepScenario(p)) \/ Tick

SpecScenario == InitScenario /\ [][NextScenario]_vars

\* The steps of process_repo_queue itself: every statement of the function
\* and every process_pr call it makes returns, so a call that has started
\* keeps taking steps.
QueueStep(p) == EnterQueue(p) \/ LoopTop(p) \/ ProcessPR(p) \/ SaveAfterPR(p)

SpecTerminates == SpecScenario /\ \A p \in Repos : WF_vars(QueueStep(p))

\* ------------------------------------------- Status Poller, Workflow Client
\* One operation at a time, called with a PR.  Every gh or git command is a
\* step of its own whose reply the hosting platform chooses: it fails
\* (subprocess.run(check=True) raises CalledProcessError) or it succeeds with
\* some output.

\* The check the orchestrator itself runs as.
MonitorCheck == "Monitor Organization Bot PRs"
CheckNames == {MonitorCheck, "ci"}
\* check.get("conclusion"): the platform's conclusions ("NONE": no conclusion).
Conclusions == {"SUCCESS", "NEUTRAL", "SKIPPED", "FAILURE", "CANCELLED", "NONE"}
MergeableStates == {"MERGEABLE", "CONFLICTING", "UNKNOWN"}

\* The statusCheckRollup lists of at most MaxChecks checks.
Rollups ==
    UNION {[1..n -> [name : CheckNames, conclusion : Conclusions]] :
             n \in 0..MaxChecks}

\* A command that failed, with or without text on its stderr.
FailedReplies == {[ok |-> FALSE, stderr |-> e, data |-> None] : e \in {"", "text"}}

\* The replies to gh pr view --json statusCheckRollup,mergeable: either key
\* may be missing from the JSON object.
StatusReplies ==
    FailedReplies \cup
    {[ok |-> TRUE, stderr |-> "",
      data |-> Some([statusCheckRollup |-> r, mergeable |-> m])] :
         r \in {None} \cup {Some(x) : x \in Rollups},
         m \in {None} \cup {Some(v) : v \in MergeableStates}}

\* rollup = status_data.get("statusCheckRollup") or []
rollup_of(status_data) ==
    IF IsSome(status_data.statusCheckRollup)
    THEN Get(status_data.statusCheckRollup) ELSE <<>>

\* all(check.get("conclusion") in ["SUCCESS", "NEUTRAL", "SKIPPED", None]
\*     for check in rollup if check.get("name") != "Monitor Organization Bot PRs")
all_passed_of(rollup) ==
    \A i \in 1..Len(rollup) :
        rollup[i].name # MonitorCheck =>
            rollup[i].conclusion \in {"SUCCESS", "NEUTRAL", "SKIPPED", "NONE"}

\* any(check.get("conclusion") == "FAILURE" for check in rollup)
has_failures_of(rollup) ==
    \E i \in 1..Len(rollup) : rollup[i].conclusion = "FAILURE"

\* status_data.get("mergeable") with no default ("None": the key is missing).
mergeable_no_default(status_data) ==
    IF IsSome(status_data.mergeable) THEN Get(status_data.mergeable) ELSE "None"

\* mergeable = status_data.get("mergeable", "UNKNOWN")
mergeable_of(status_data) ==
    IF IsSome(status_data.mergeable) THEN Get(status_data.mergeable) ELSE "UNKNOWN"

\* check_pr_status: max_retries, retry_delay
max_retries == 5
retry_delay == 10

\* check_pr_status(pr) is called: time.sleep(15), then the first attempt.
CheckPRStatusStart ==
    /\ call.pc = "idle"
    /\ call' = [IdleCall EXCEPT !.op = "check_pr_status", !.pc = "query",
                                !.attempt = 1, !.sleeps = <<15>>]
    /\ UNCHANGED <<queue_vars, platform>>

\* self._run_gh_command(["gh", "pr", "view", ..., "--json",
\* "statusCheckRollup,mergeable"]) and the platform's reply to it.
RunStatusQuery ==
    /\ call.op = "check_pr_status" /\ call.pc = "query"
    /\ \E reply \in StatusReplies :
          call' = [call EXCEPT !.cmds = Append(@, "pr view statusCheckRollup,mergeable"),
                               !.reply = Some(reply),
                               !.pc = "reply"]
    /\ UNCHANGED <<queue_vars, platform>>

\* CheckPRStatusHandle giving up after one attempt fewer.
CheckPRStatusHandle_FourAttempts ==
    /\ call.op = "check_pr_status" /\ call.pc = "reply"
    /\ LET reply == Get(call.reply)
       IN  IF ~reply.ok
           THEN call' = [call EXCEPT !.pc = "raised",
                                     !.raised = "CalledProcessError"]
           ELSE LET status_data == Get(reply.data)
                    rollup == rollup_of(status_data)
                    all_passed == all_passed_of(rollup)
                    has_failures == has_failures_of(rollup)
                    mergeable == mergeable_of(status_data)
                    locals == [all_passed |-> all_passed,
                               has_failures |-> has_failures,
                               mergeable |-> mergeable]
                IN  IF mergeable # "UNKNOWN"
                    THEN call' = [call EXCEPT
                                    !.locals = Some(locals),
                                    !.observed = Append(@, mergeable),
                                    !.result = Some(<<all_passed, has_failures,
                                                      mergeable>>),
                                    !.pc = "returned"]
                    ELSE IF call.attempt < max_retries - 1
                    THEN call' = [call EXCEPT
                                    !.locals = Some(locals),
                                    !.observed = Append(@, mergeable),
                                    !.sleeps = Append(@, retry_delay * call.attempt),
                                    !.attempt = @ + 1,
                                    !.reply = None,
                                    !.pc = "query"]
                    ELSE call' = [call EXCEPT
                                    !.locals = Some(locals),
                                    !.observed = Append(@, mergeable),
                                    !.result = Some(<<all_passed, has_failures,
                                                      "UNKNOWN">>),
                                    !.pc = "returned"]
    /\ UNCHANGED <<queue_vars, platform>>

\* CheckPRStatusHandle returning early only on MERGEABLE.
CheckPRStatusHandle_RetryOnConflicting ==
    /\ call.op = "check_pr_status" /\ call.pc = "reply"
    /\ LET reply == Get(call.reply)
       IN  IF ~reply.ok
           THEN call' = [call EXCEPT !.pc = "raised",
                                     !.raised = "CalledProcessError"]
           ELSE LET status_data == Get(reply.data)
                    rollup == rollup_of(status_data)
                    all_passed == all_passed_of(rollup)
                    has_failures == has_failures_of(rollup)
                    mergeable == mergeable_of(status_data)
                    locals == [all_passed |-> all_passed,
                               has_failures |-> has_failures,
                               mergeable |-> mergeable]
                IN  IF mergeable = "MERGEABLE"
                    THEN call' = [call EXCEPT
                                    !.locals = Some(locals),
                                    !.observed = Append(@, mergeable),
                                    !.result = Some(<<all_passed, has_failures,
                                                      mergeable>>),
                                    !.pc = "returned"]
                    ELSE IF call.attempt < max_retries
                    THEN call' = [call EXCEPT
                                    !.locals = Some(locals),
                                    !.observed = Append(@, mergeable),
                                    !.sleeps = Append(@, retry_delay * call.attempt),
                                    !.attempt = @ + 1,
                                    !.reply = None,
                                    !.pc = "query"]
                    ELSE call' = [call EXCEPT
                                    !.locals = Some(locals),
                                    !.observed = Append(@, mergeable),
                                    !.result = Some(<<all_passed, has_failures,
                                                      "UNKNOWN">>),
                                    !.pc = "returned"]
    /\ UNCHANGED <<queue_vars, platform>>

\* CheckPRStatusHandle sleeping after the last attempt as after the others.
CheckPRStatusHandle_SleepAfterLast ==
    /\ call.op = "check_pr_status" /\ call.pc = "reply"
    /\ LET reply == Get(call.reply)
       IN  IF ~reply.ok
           THEN call' = [call EXCEPT !.pc = "raised",
                                     !.raised = "CalledProcessError"]
           ELSE LET status_data == Get(reply.data)
                    rollup == rollup_of(status_data)
                    all_passed == all_passed_of(rollup)
                    has_failures == has_failures_of(rollup)
                    mergeable == mergeable_of(status_data)
                    locals == [all_passed |-> all_passed,
                               has_failures |-> has_failures,
                               mergeable |-> mergeable]
                IN  IF mergeable # "UNKNOWN"
                    THEN call' = [call EXCEPT
                                    !.locals = Some(locals),
                                    !.observed = Append(@, mergeable),
                                    !.result = Some(<<all_passed, has_failures,
                                                      mergeable>>),
                                    !.pc = "returned"]
                    ELSE IF call.attempt < max_retries
                    THEN call' = [call EXCEPT
                                    !.locals = Some(locals),
                                    !.observed = Append(@, mergeable),
                                    !.sleeps = Append(@, retry_delay * call.attempt),
                                    !.attempt = @ + 1,
                                    !.reply = None,
                                    !.pc = "query"]
                    ELSE call' = [call EXCEPT
                                    !.locals = Some(locals),
                                    !.observed = Append(@, mergeable),
                                    !.sleeps = Append(@, retry_delay * call.attempt),
                                    !.result = Some(<<all_passed, has_failures,
                                                      "UNKNOWN">>),
                                    !.pc = "returned"]
    /\ UNCHANGED <<queue_vars, platform>>

\* The rest of one attempt of check_pr_status: a failed command raises out of
\* the method; otherwise the reply is decoded, a definite mergeable returns,
\* UNKNOWN sleeps retry_delay * attempt and retries, and after the last
\* attempt the method returns (all_passed, has_failures, "UNKNOWN").
CheckPRStatusHandle ==
    /\ call.op = "check_pr_status" /\ call.pc = "reply"
    /\ LET reply == Get(call.reply)
       IN  IF ~reply.ok
           THEN call' = [call EXCEPT !.pc = "raised",
                                     !.raised = "CalledProcessError"]
           ELSE LET status_data == Get(reply.data)
                    rollup == rollup_of(status_data)
                    all_passed == all_passed_of(rollup)
                    has_failures == has_failures_of(rollup)
                    mergeable == mergeable_of(status_data)
                    locals == [all_passed |-> all_passed,
                               has_failures |-> has_failures,
                               mergeable |-> mergeable]
                IN  IF mergeable # "UNKNOWN"
                    THEN call' = [call EXCEPT
                                    !.locals = Some(locals),
                                    !.observed = Append(@, mergeable),
                                    !.result = Some(<<all_passed, has_failures,
                                                      mergeable>>),
                                    !.pc = "returned"]
                    ELSE IF call.attempt < max_retries
                    THEN call' = [call EXCEPT
                                    !.locals = Some(locals),
                                    !.observed = Append(@, mergeable),
                                    !.sleeps = Append(@, retry_delay * call.attempt),
                                    !.attempt = @ + 1,
                                    !.reply = None,
                                    !.pc = "query"]
                    ELSE call' = [call EXCEPT
                                    !.locals = Some(locals),
                                    !.observed = Append(@, mergeable),
                                    !.result = Some(<<all_passed, has_failures,
                                                      "UNKNOWN">>),
                                    !.pc = "returned"]
    /\ UNCHANGED <<queue_vars, platform>>

\* --- StatusPoller.wait_for_checks_completion

\* check.get("status")
CheckStatuses == {"COMPLETED", "IN_PROGRESS", "QUEUED", "PENDING"}

\* The replies to gh pr view --json statusCheckRollup.
ChecksReplies ==
    FailedReplies \cup
    {[ok |-> TRUE, stderr |-> "", data |-> Some([statusCheckRollup |-> r])] :
         r \in {None} \cup
               {Some(x) : x \in UNION {[1..n -> [status : CheckStatuses,
                                                  conclusion : Conclusions]] :
                                          n \in 0..MaxChecks}}}

\* check_interval = 30 (wait_for_checks_completion, poll_workflow_status)
check_interval == 30

\* max_attempts = (timeout_minutes * 60) // check_interval
max_attempts_of(timeout_minutes) == (timeout_minutes * 60) \div check_interval

\* any(check.get("conclusion") is None
\*     or check.get("status") in ["IN_PROGRESS", "QUEUED", "PENDING"] ...)
any_running_of(rollup) ==
    \E i \in 1..Len(rollup) :
        \/ rollup[i].conclusion = "NONE"
        \/ rollup[i].status \in {"IN_PROGRESS", "QUEUED", "PENDING"}

\* The end of one loop iteration that did not return: the next attempt, or
\* past the last one the statement after the loop, which returns RUNNING.
NextAttemptOrRunning(c) ==
    IF c.attempt < max_attempts_of(Get(c.arg))
    THEN [c EXCEPT !.attempt = @ + 1, !.reply = None, !.pc = "query"]
    ELSE [c EXCEPT !.result = Some("RUNNING"), !.pc = "returned"]

\* wait_for_checks_completion(pr, timeout_minutes) is called; with
\* max_attempts = 0 the loop body never runs.
WaitForChecksStart ==
    /\ call.pc = "idle"
    /\ \E timeout_minutes \in 0..MaxTimeoutMinutes :
          call' = NextAttemptOrRunning(
                     [IdleCall EXCEPT !.op = "wait_for_checks_completion",
                                      !.arg = Some(timeout_minutes)])
    /\ UNCHANGED <<queue_vars, platform>>

\* One attempt of wait_for_checks_completion: the status query, then
\* NO_CHECKS / FAILED / COMPLETED, or a sleep and the next attempt.
WaitForChecksAttempt ==
    /\ call.op = "wait_for_checks_completion" /\ call.pc = "query"
    /\ \E reply \in ChecksReplies :
          LET c == [call EXCEPT !.cmds = Append(@, "pr view statusCheckRollup"),
                                !.reply = Some(reply)]
          IN  IF ~reply.ok
              THEN call' = [c EXCEPT !.pc = "raised",
                                     !.raised = "CalledProcessError"]
              ELSE LET rollup == rollup_of(Get(reply.data))
                       any_running == any_running_of(rollup)
                       any_failed == has_failures_of(rollup)
                   IN  IF rollup = <<>>
                       THEN IF c.attempt > 2
                            THEN call' = [c EXCEPT
                                            !.observed = Append(@, "no_checks"),
                                            !.result = Some("NO_CHECKS"),
                                            !.pc = "returned"]
                            ELSE call' = NextAttemptOrRunning(
                                     [c EXCEPT
                                        !.observed = Append(@, "no_checks"),
                                        !.sleeps = Append(@, check_interval)])
                       ELSE IF ~any_running
                       THEN call' = [c EXCEPT
                                       !.observed = Append(@, "finished"),
                                       !.result = Some(IF any_failed THEN "FAILED"
                                                       ELSE "COMPLETED"),
                                       !.pc = "returned"]
                       ELSE call' = NextAttemptOrRunning(
                                [c EXCEPT
                                   !.observed = Append(@, "running"),
                                   !.sleeps = IF c.attempt < max_attempts_of(Get(c.arg))
                                              THEN Append(@, check_interval)
                                              ELSE @])
    /\ UNCHANGED <<queue_vars, platform>>

\* --- WorkflowClient

\* pr.pr_author
PRAuthors == {"app/dependabot", "app/pre-commit-ci", "app/renovate"}

\* The operation returns value / an exception of the named class leaves it.
Returns(c, value) == [c EXCEPT !.result = Some(value), !.pc = "returned"]
Raises(c, exception) == [c EXCEPT !.raised = exception, !.pc = "raised"]

\* A command that succeeded with the given output.
OkReply(output) == [ok |-> TRUE, stderr |-> "", data |-> Some(output)]

\* CheckLatestComment letting the failure of the command out.
CheckLatestComment_RaiseOnFailure ==
    /\ call.pc = "idle"
    /\ \E pr_author \in PRAuthors :
       \E given \in {None, Some("octocat")} :
       \E reply \in FailedReplies \cup {OkReply(""), OkReply("@dependabot rebase")} :
          LET author == IF IsSome(given) THEN Get(given)
                        ELSE IF pr_author = "app/dependabot" THEN "dependabot"
                        ELSE IF pr_author = "app/pre-commit-ci"
                             THEN "pre-commit-ci[bot]"
                        ELSE pr_author
              c == [IdleCall EXCEPT !.op = "check_latest_comment",
                                    !.arg = Some([pr_author |-> pr_author,
                                                  author |-> given]),
                                    !.locals = Some([author |-> author]),
                                    !.cmds = <<"pr view comments">>,
                                    !.reply = Some(reply)]
          IN  call' = IF reply.ok THEN Returns(c, Get(reply.data))
                      ELSE Raises(c, "CalledProcessError")
    /\ UNCHANGED <<queue_vars, platform>>

\* check_latest_comment(pr, author): the author is inferred from pr.pr_author
\* when not given; the jq-filtered output is the body of that author's last
\* comment or ""; a failed command gives "".
CheckLatestComment ==
    /\ call.pc = "idle"
    /\ \E pr_author \in PRAuthors :
       \E given \in {None, Some("octocat")} :
       \E reply \in FailedReplies \cup {OkReply(""), OkReply("@dependabot rebase")} :
          LET author == IF IsSome(given) THEN Get(given)
                        ELSE IF pr_author = "app/dependabot" THEN "dependabot"
                        ELSE IF pr_author = "app/pre-commit-ci"
                             THEN "pre-commit-ci[bot]"
                        ELSE pr_author
              c == [IdleCall EXCEPT !.op = "check_latest_comment",
                                    !.arg = Some([pr_author |-> pr_author,
                                                  author |-> given]),
                                    !.locals = Some([author |-> author]),
                                    !.cmds = <<"pr view comments">>,
                                    !.reply = Some(reply)]
          IN  call' = IF reply.ok THEN Returns(c, Get(reply.data))
                      ELSE Returns(c, "")
    /\ UNCHANGED <<queue_vars, platform>>

\* get_pr_head_sha(pr): the head commit, None when the command failed.
GetPRHeadSHA ==
    /\ call.pc = "idle"
    /\ \E reply \in FailedReplies \cup {OkReply("sha-1"), OkReply("sha-2")} :
          LET c == [IdleCall EXCEPT !.op = "get_pr_head_sha",
                                    !.cmds = <<"pr view headRefOid">>,
                                    !.reply = Some(reply)]
          IN  call' = IF reply.ok THEN Returns(c, Get(reply.data))
                      ELSE Returns(c, "None")
    /\ UNCHANGED <<queue_vars, platform>>

\* The commands of _manual_rebase, in order.
ManualRebaseSteps ==
    <<"gh pr view headRefName,baseRefName", "gh repo clone",
      "git config user.name", "git config user.email",
      "git config credential.helper", "git remote set-url",
      "git fetch origin head", "git checkout head", "git fetch origin base",
      "git rebase origin/base", "git push --force-with-lease">>

\* trigger_rebase(pr) is called: an author that is neither bot returns False
\* at once.
TriggerRebaseStart ==
    /\ call.pc = "idle"
    /\ \E pr_author \in PRAuthors :
          LET c == [IdleCall EXCEPT !.op = "trigger_rebase",
                                    !.arg = Some(pr_author)]
          IN  call' = IF pr_author \in {"app/dependabot", "app/pre-commit-ci"}
                      THEN [c EXCEPT !.pc = "query"]
                      ELSE Returns(c, FALSE)
    /\ UNCHANGED <<queue_vars, platform>>

\* trigger_rebase for a Dependabot PR: gh pr comment --body "@dependabot rebase"
DependabotRebase ==
    /\ call.op = "trigger_rebase" /\ call.pc = "query"
    /\ Get(call.arg) = "app/dependabot"
    /\ \E reply \in FailedReplies \cup {OkReply("")} :
          call' = Returns([call EXCEPT !.cmds = Append(@, "gh pr comment"),
                                       !.reply = Some(reply)],
                          reply.ok)
    /\ UNCHANGED <<queue_vars, platform>>

\* One command of _manual_rebase.  The first goes through _run_gh_command
\* (text=True), the others through subprocess.run(capture_output=True).  The
\* CalledProcessError handler runs e.stderr.decode() when e.stderr is not
\* empty: bytes for the git commands, but str for the first command, where
\* the AttributeError leaves the handler.  json.loads or a missing key after
\* the first command is caught by except Exception.
ManualRebaseStep ==
    /\ call.op = "trigger_rebase" /\ call.pc = "query"
    /\ Get(call.arg) = "app/pre-commit-ci"
    /\ LET k == Len(call.cmds) + 1
       IN  \E reply \in FailedReplies \cup
                       (IF k = 1 THEN {OkReply("refs"), OkReply("not refs")}
                        ELSE {OkReply("")}) :
              LET c == [call EXCEPT !.cmds = Append(@, ManualRebaseSteps[k]),
                                    !.reply = Some(reply)]
              IN  call' =
                     IF ~reply.ok
                     THEN IF reply.stderr # "" /\ k = 1
                          THEN Raises(c, "AttributeError")
                          ELSE Returns(c, FALSE)
                     ELSE IF k = 1 /\ Get(reply.data) # "refs"
                     THEN Returns(c, FALSE)
                     ELSE IF k = Len(ManualRebaseSteps)
                     THEN Returns(c, TRUE)
                     ELSE [c EXCEPT !.reply = None]
    /\ UNCHANGED <<queue_vars, platform>>

\* trigger_fix_workflow(pr) is called.
TriggerFixStart ==
    /\ call.pc = "idle"
    /\ call' = [IdleCall EXCEPT !.op = "trigger_fix_workflow", !.pc = "query"]
    /\ UNCHANGED <<queue_vars, platform>>

\* The two commands of trigger_fix_workflow: gh workflow run, then after
\* time.sleep(5) gh run list --limit 1, whose newest run is this call's or
\* another's; either failing gives None, as does an empty list.
TriggerFixStep ==
    /\ call.op = "trigger_fix_workflow" /\ call.pc = "query"
    /\ LET k == Len(call.cmds) + 1
       IN  \E reply \in FailedReplies \cup
                       (IF k = 1 THEN {OkReply(<<>>)}
                        ELSE {OkReply(<<>>), OkReply(<<"run of this call">>),
                              OkReply(<<"run of another call">>)}) :
              LET c == [call EXCEPT
                          !.cmds = Append(@, IF k = 1 THEN "gh workflow run"
                                             ELSE "gh run list"),
                          !.reply = Some(reply)]
              IN  call' =
                     IF ~reply.ok THEN Returns(c, "None")
                     ELSE IF k = 1
                     THEN [c EXCEPT !.sleeps = Append(@, 5), !.reply = None]
                     ELSE IF Get(reply.data) # <<>>
                     THEN Returns(c, Get(reply.data)[1])
                     ELSE Returns(c, "None")
    /\ UNCHANGED <<queue_vars, platform>>

\* The replies to gh run view --json status,conclusion.
RunReplies ==
    FailedReplies \cup
    {OkReply([status |-> st, conclusion |-> co]) :
        st \in {"completed", "in_progress", "queued"},
        co \in {"success", "failure", "cancelled", "timed_out", "NONE"}}

\* poll_workflow_status(run_id, timeout_minutes) is called.
PollWorkflowStart ==
    /\ call.pc = "idle"
    /\ \E timeout_minutes \in 0..MaxTimeoutMinutes :
          call' = NextAttemptOrRunning(
                     [IdleCall EXCEPT !.op = "poll_workflow_status",
                                      !.arg = Some(timeout_minutes)])
    /\ UNCHANGED <<queue_vars, platform>>

\* PollWorkflowAttempt treating a failed query as a run still in progress.
PollWorkflowAttempt_ContinueOnError ==
    /\ call.op = "poll_workflow_status" /\ call.pc = "query"
    /\ \E reply \in RunReplies :
          LET c == [call EXCEPT !.cmds = Append(@, "gh run view status,conclusion"),
                                !.reply = Some(reply)]
          IN  IF ~reply.ok
              THEN call' = NextAttemptOrRunning(
                              [c EXCEPT !.sleeps = Append(@, check_interval)])
              ELSE LET status == Get(reply.data).status
                       conclusion == Get(reply.data).conclusion
                       done == [c EXCEPT !.observed = Append(@, "completed")]
                   IN  IF status = "completed" /\ conclusion = "success"
                       THEN call' = Returns(done, "SUCCESS")
                       ELSE IF status = "completed" /\ conclusion = "failure"
                       THEN call' = Returns(done, "FAILURE")
                       ELSE IF status = "completed" /\ conclusion = "cancelled"
                       THEN call' = Returns(done, "CANCELLED")
                       ELSE call' = NextAttemptOrRunning(
                                [c EXCEPT
                                   !.observed = Append(@, status),
                                   !.sleeps = IF c.attempt < max_attempts_of(Get(c.arg))
                                              THEN Append(@, check_interval)
                                              ELSE @])
    /\ UNCHANGED <<queue_vars, platform>>

\* One attempt of poll_workflow_status: a failed query returns UNKNOWN; a
\* completed run with conclusion success, failure or cancelled returns;
\* anything else sleeps (except after the last attempt) and polls again.
PollWorkflowAttempt ==
    /\ call.op = "poll_workflow_status" /\ call.pc = "query"
    /\ \E reply \in RunReplies :
          LET c == [call EXCEPT !.cmds = Append(@, "gh run view status,conclusion"),
                                !.reply = Some(reply)]
          IN  IF ~reply.ok
              THEN call' = Returns(c, "UNKNOWN")
              ELSE LET status == Get(reply.data).status
                       conclusion == Get(reply.data).conclusion
                       done == [c EXCEPT !.observed = Append(@, "completed")]
                   IN  IF status = "completed" /\ conclusion = "success"
                       THEN call' = Returns(done, "SUCCESS")
                       ELSE IF status = "completed" /\ conclusion = "failure"
                       THEN call' = Returns(done, "FAILURE")
                       ELSE IF status = "completed" /\ conclusion = "cancelled"
                       THEN call' = Returns(done, "CANCELLED")
                       ELSE call' = NextAttemptOrRunning(
                                [c EXCEPT
                                   !.observed = Append(@, status),
                                   !.sleeps = IF c.attempt < max_attempts_of(Get(c.arg))
                                              THEN Append(@, check_interval)
                                              ELSE @])
    /\ UNCHANGED <<queue_vars, platform>>

\* auto_merge_pr(pr) is called.
AutoMergeStart ==
    /\ call.pc = "idle"
    /\ call' = [IdleCall EXCEPT !.op = "auto_merge_pr", !.pc = "query",
                                !.locals = Some("gh pr view reviewDecision")]
    /\ UNCHANGED <<queue_vars, platform>>

\* AutoMergeStep approving whatever the review decision is.
AutoMergeStep_ApproveAlways ==
    /\ call.op = "auto_merge_pr" /\ call.pc = "query"
    /\ LET cmd == Get(call.locals)
       IN  \E reply \in FailedReplies \cup
                       (IF cmd = "gh pr view reviewDecision"
                        THEN {OkReply("APPROVED"), OkReply("REVIEW_REQUIRED"),
                              OkReply("None")}
                        ELSE {OkReply("")}) :
              LET c == [call EXCEPT !.cmds = Append(@, cmd),
                                    !.reply = Some(reply)]
              IN  call' =
                     IF ~reply.ok THEN Returns(c, FALSE)
                     ELSE IF cmd = "gh pr view reviewDecision"
                     THEN [c EXCEPT !.reply = None,
                                    !.observed = Append(@, Get(reply.data)),
                                    !.locals = Some("gh pr review --approve")]
                     ELSE IF cmd = "gh pr review --approve"
                     THEN [c EXCEPT !.reply = None,
                                    !.observed = Append(@, "approved"),
                                    !.locals = Some("gh pr merge --auto --squash")]
                     ELSE Returns([c EXCEPT !.observed =
                                               Append(@, "auto-merge enabled")],
                                  TRUE)
    /\ UNCHANGED <<queue_vars, platform>>

\* The commands of auto_merge_pr: view reviewDecision, approve unless
\* already APPROVED, merge --auto --squash; a failed command returns False.
\* observed lists what the commands that succeeded established.
AutoMergeStep ==
    /\ call.op = "auto_merge_pr" /\ call.pc = "query"
    /\ LET cmd == Get(call.locals)
       IN  \E reply \in FailedReplies \cup
                       (IF cmd = "gh pr view reviewDecision"
                        THEN {OkReply("APPROVED"), OkReply("REVIEW_REQUIRED"),
                              OkReply("None")}
                        ELSE {OkReply("")}) :
              LET c == [call EXCEPT !.cmds = Append(@, cmd),
                                    !.reply = Some(reply)]
              IN  call' =
                     IF ~reply.ok THEN Returns(c, FALSE)
                     ELSE IF cmd = "gh pr view reviewDecision"
                     THEN [c EXCEPT !.reply = None,
                                    !.observed = Append(@, Get(reply.data)),
                                    !.locals =
                                       Some(IF Get(reply.data) # "APPROVED"
                                            THEN "gh pr review --approve"
                                            ELSE "gh pr merge --auto --squash")]
                     ELSE IF cmd = "gh pr review --approve"
                     THEN [c EXCEPT !.reply = None,
                                    !.observed = Append(@, "approved"),
                                    !.locals = Some("gh pr merge --auto --squash")]
                     ELSE Returns([c EXCEPT !.observed =
                                               Append(@, "auto-merge enabled")],
                                  TRUE)
    /\ UNCHANGED <<queue_vars, platform>>

\* The caller has the outcome; the next operation may be called.
CallDone ==
    /\ call.pc \in {"returned", "raised"}
    /\ call' = IdleCall
    /\ UNCHANGED <<queue_vars, platform>>

InitOps ==
    /\ now = 0
    /\ current_run = 1
    /\ all_prs = Discovered(MaxPRs, 1)
    /\ cli_input = [p \in Repos |-> [all_prs_json |-> "valid", gh_token |-> "set"]]
    /\ exit_code = [p \in Repos |-> None]
    /\ call = IdleCall
    /\ platform = InitPlatform
    /\ durable = None
    /\ pc = [p \in Repos |-> "call"]
    /\ run_id = [p \in Repos |-> 1]
    /\ state = [p \in Repos |->
                  Some(create_initial_state(1, repo_prs(all_prs, p), 0))]
    /\ should_advance = [p \in Repos |-> "none"]
    /\ completed = [p \in Repos |-> "none"]
    /\ resumed = [p \in Repos |-> FALSE]
    /\ calls = [p \in Repos |-> 0]
    /\ loop_saves = [p \in Repos |-> 0]
    /\ timeout_check = [p \in Repos |-> None]
    /\ advanced = [r \in Repos |-> {}]

NextOps ==
    \/ CheckPRStatusStart
    \/ RunStatusQuery
    \/ CheckPRStatusHandle
    \/ WaitForChecksStart
    \/ WaitForChecksAttempt
    \/ CheckLatestComment
    \/ GetPRHeadSHA
    \/ TriggerRebaseStart
    \/ DependabotRebase
    \/ ManualRebaseStep
    \/ TriggerFixStart
    \/ TriggerFixStep
    \/ PollWorkflowStart
    \/ PollWorkflowAttempt
    \/ AutoMergeStart
    \/ AutoMergeStep
    \/ CallDone

SpecOps == InitOps /\ [][NextOps]_vars

\* ------------------------------------------------------------ PR Processor
\* pr_processor.py is not among the source files; process_pr is modelled from
\* the specification (section 4.3), with the outcomes of the Status Poller
\* and Workflow Client operations it calls chosen by the environment.

\* The results of check_pr_status that process_pr acts on.
PRStatuses ==
    [all_passed : BOOLEAN, has_failures : BOOLEAN, mergeable : MergeableStates]

\* process_pr advancing past a mergeable PR only when auto_merge_pr succeeded.
process_pr_AdvanceOnlyIfMerged(status, merged, prior_fix, give_up) ==
    IF status.all_passed /\ status.mergeable = "MERGEABLE"
    THEN [ops |-> <<"check_pr_status", "auto_merge_pr">>,
          should_advance |-> merged]
    ELSE IF status.has_failures
    THEN IF ~prior_fix
         THEN [ops |-> <<"check_pr_status", "check_latest_comment",
                         "trigger_fix_workflow", "poll_workflow_status">>,
               should_advance |-> FALSE]
         ELSE [ops |-> <<"check_pr_status", "check_latest_comment">>,
               should_advance |-> give_up]
    ELSE IF status.mergeable = "CONFLICTING"
    THEN [ops |-> <<"check_pr_status", "trigger_rebase">>,
          should_advance |-> FALSE]
    ELSE [ops |-> <<"check_pr_status">>, should_advance |-> FALSE]

\* process_pr(pr), steps 2 to 5 of the contract, given the status that step 1
\* obtained: the operations called, in order, and should_advance.  merged is
\* the result of auto_merge_pr, prior_fix whether a fix was already attempted;
\* what follows a fix already attempted (give_up: remediation exhausted) is
\* left open by the contract.
process_pr(status, merged, prior_fix, give_up) ==
    IF status.all_passed /\ status.mergeable = "MERGEABLE"
    THEN [ops |-> <<"check_pr_status", "auto_merge_pr">>,
          should_advance |-> TRUE]
    ELSE IF status.has_failures
    THEN IF ~prior_fix
         THEN [ops |-> <<"check_pr_status", "check_latest_comment",
                         "trigger_fix_workflow", "poll_workflow_status">>,
               should_advance |-> FALSE]
         ELSE [ops |-> <<"check_pr_status", "check_latest_comment">>,
               should_advance |-> give_up]
    ELSE IF status.mergeable = "CONFLICTING"
    THEN [ops |-> <<"check_pr_status", "trigger_rebase">>,
          should_advance |-> FALSE]
    ELSE [ops |-> <<"check_pr_status">>, should_advance |-> FALSE]

\* should_advance = self.pr_processor.process_pr(pr), with the status the
\* poller returned; call keeps the PR, the status, the operations called and
\* the result of auto_merge_pr when it was called.
ProcessPRStatus(p) ==
    /\ pc[p] = "call"
    /\ \E status \in PRStatuses : \E merged, prior_fix, give_up \in BOOLEAN :
          LET pr == Get(get_current_pr(Get(state[p]).repo_queues[p]))
              outcome == process_pr(status, merged, prior_fix, give_up)
          IN  /\ should_advance' = [should_advance EXCEPT ![p] =
                     IF outcome.should_advance THEN "true" ELSE "false"]
              /\ call' = [IdleCall EXCEPT
                            !.op = "process_pr",
                            !.arg = Some(pr),
                            !.locals = Some(status),
                            !.cmds = outcome.ops,
                            !.observed =
                               IF outcome.ops[Len(outcome.ops)] = "auto_merge_pr"
                               THEN <<merged>> ELSE <<>>,
                            !.result = Some(outcome.should_advance),
                            !.pc = "returned"]
    /\ calls' = [calls EXCEPT ![p] = @ + 1]
    /\ pc' = [pc EXCEPT ![p] = "save"]
    /\ UNCHANGED <<now, current_run, all_prs, cli_input, platform, exit_code, durable,
                   run_id, state, completed, resumed, loop_saves,
                   timeout_check, advanced>>

\* main ending with an exception caught by its except Exception clause.
main_exit_code_Zero(raised) == 0

\* The exit status of main: sys.exit(1) from the except Exception clause when
\* the processing raised, the normal end of the process otherwise.
main_exit_code(raised) == IF raised THEN 1 ELSE 0

\* process_pr(pr) when the status query of check_pr_status fails: the
\* CalledProcessError leaves process_pr and process_repo_queue, which has no
\* handler, so nothing is saved and the cursor stays; main catches it and
\* exits.
ProcessPRFails(p) ==
    /\ pc[p] = "call"
    /\ exit_code' = [exit_code EXCEPT ![p] = Some(main_exit_code(TRUE))]
    /\ call' = [IdleCall EXCEPT
                  !.op = "process_pr",
                  !.arg = Some(Get(get_current_pr(Get(state[p]).repo_queues[p]))),
                  !.cmds = <<"check_pr_status">>,
                  !.raised = "CalledProcessError",
                  !.pc = "raised"]
    /\ calls' = [calls EXCEPT ![p] = @ + 1]
    /\ pc' = [pc EXCEPT ![p] = "failed"]
    /\ UNCHANGED <<now, current_run, all_prs, cli_input, platform, durable,
                   run_id, state, should_advance, completed, resumed,
                   loop_saves, timeout_check, advanced>>

\* One call of process_repo_queue per repository, process_pr deciding by the
\* status of the PR.
StepProcessor(p) ==
    \/ EnterQueue(p)
    \/ LoopTop(p)
    \/ ProcessPRStatus(p)
    \/ ProcessPRFails(p)
    \/ SaveAfterPR(p)

NextProcessor == (\E p \in Repos : StepProcessor(p)) \/ Tick

SpecProcessor == InitScenario /\ [][NextProcessor]_vars

\* --------------------------------------- PR Processor, fix de-duplication
\* process_pr finds a prior fix attempt by inspecting the PR on the hosting
\* platform (latest bot comment, head commit); the platform keeps, per PR,
\* the head commit and the commits fix runs were started for.

\* Commits pushed to a PR after its first head commit.
MaxPushes == 1

\* trigger_fix_workflow(pr): one gh workflow run command, which starts one
\* fix run for the PR's head commit, or none when the command fails.
fix_runs_after_trigger(runs, sha, started) ==
    IF started THEN Append(runs, sha) ELSE runs

\* A fix run was started for the PR at its present head commit.
prior_fix_of(pr) ==
    \E i \in 1..Len(platform.fix_runs[pr]) :
        platform.fix_runs[pr][i] = platform.head_sha[pr]

\* should_advance = self.pr_processor.process_pr(pr), the prior fix attempt
\* read from the platform and a triggered fix run recorded there; call keeps
\* what decided the outcome, the operations called and the result.
ProcessPROnPlatform(p) ==
    /\ pc[p] = "call"
    /\ \E status \in PRStatuses : \E merged, give_up, started \in BOOLEAN :
          LET pr == Get(get_current_pr(Get(state[p]).repo_queues[p]))
              outcome == process_pr(status, merged, prior_fix_of(pr), give_up)
              triggers == \E i \in 1..Len(outcome.ops) :
                             outcome.ops[i] = "trigger_fix_workflow"
          IN  /\ should_advance' = [should_advance EXCEPT ![p] =
                     IF outcome.should_advance THEN "true" ELSE "false"]
              /\ platform' =
                    IF triggers
                    THEN [platform EXCEPT !.fix_runs[pr] =
                             fix_runs_after_trigger(@, platform.head_sha[pr],
                                                    started)]
                    ELSE platform
              /\ call' = [IdleCall EXCEPT
                            !.op = "process_pr",
                            !.locals = Some([has_failures |-> status.has_failures,
                                             prior_fix |-> prior_fix_of(pr)]),
                            !.cmds = outcome.ops,
                            !.result = Some(outcome.should_advance),
                            !.pc = "returned"]
    /\ calls' = [calls EXCEPT ![p] = @ + 1]
    /\ pc' = [pc EXCEPT ![p] = "save"]
    /\ UNCHANGED <<now, current_run, all_prs, cli_input, exit_code, durable,
                   run_id, state, completed, resumed, loop_saves,
                   timeout_check, advanced>>

\* The bot or a person pushes a commit to a discovered PR.
Push ==
    /\ \E pr \in SeqRange(all_prs) :
          /\ platform.head_sha[pr] <= MaxPushes
          /\ platform' = [platform EXCEPT !.head_sha[pr] = @ + 1]
    /\ UNCHANGED <<queue_vars, call>>

\* Invocation after invocation of process_repo_queue on the same state.
StepFix(p) ==
    \/ EnterQueue(p)
    \/ LoopTop(p)
    \/ ProcessPROnPlatform(p)
    \/ SaveAfterPR(p)
    \/ CallAgain(p)

NextFix == (\E p \in Repos : StepFix(p)) \/ Push

\* A run that discovered at most MaxPRs PRs.
InitFix == InitScenario /\ Len(all_prs) <= MaxPRs

SpecFix == InitFix /\ [][NextFix]_vars

\* ------------------------------------------------------ failure classifier
\* PRFailureClassifier.classify, as a function of what the messages API
\* answers.  Confidences are in hundredths.

\* FailureType values.
FailureTypes == {"merge_conflict", "security", "lint", "test", "build", "unknown"}

\* The "confidence" member of the answer: missing, or a JSON number, a string
\* that float() accepts, a string it rejects, or null.
Confidences ==
    {[type |-> t, value |-> 0] : t \in {"text", "null"}} \cup
    {[type |-> t, value |-> v] : t \in {"number", "numeric string"},
                                 v \in {0 - 50, 0, 69, 70, 100, 150}}

\* What the text of an answer is once any code fence is taken off: not JSON,
\* a JSON number, string or array, or a JSON object whose four members are
\* each present or not.
JsonTexts ==
    {[kind |-> k, failure_type |-> None, confidence |-> None,
      reasoning |-> None, recommended_action |-> None] :
        k \in {"invalid", "number", "string", "array"}} \cup
    [kind : {"object"},
     failure_type : {None, Some("test"), Some("unknown"), Some("bogus")},
     confidence : {None} \cup {Some(c) : c \in Confidences},
     reasoning : {None, Some("str"), Some("null")},
     recommended_action : {None, Some("str")}]

\* response: the API call raised anthropic.APIError, or returned a message
\* whose content is empty or starts with a block that has a text or has none;
\* the text may be wrapped in a ``` fence.
ApiOutcomes ==
    {[error |-> TRUE, content |-> <<>>], [error |-> FALSE, content |-> <<>>],
     [error |-> FALSE, content |-> <<[text |-> None]>>]} \cup
    {[error |-> FALSE, content |-> <<[text |-> Some([fenced |-> f, json |-> j])]>>] :
        f \in BOOLEAN, j \in JsonTexts}

\* MIN_CONFIDENCE = 0.7
MIN_CONFIDENCE == 70

\* The fallback of both except clauses.
UnknownResult ==
    [raised |-> "none",
     result |-> Some([failure_type |-> "unknown", confidence |-> 0])]

\* An exception no except clause of classify names.
Escapes(exception) == [raised |-> exception, result |-> None]

\* The try body from "Validate required fields" on, for the parsed answer.
classify_parsed(result_data) ==
    IF result_data.kind \in {"number"}
    THEN Escapes("TypeError")           \* f not in result_data
    ELSE IF result_data.kind \in {"string", "array"}
    THEN UnknownResult                  \* the four names are missing
    ELSE IF \E f \in {"failure_type", "confidence", "reasoning",
                      "recommended_action"} : result_data[f] = None
    THEN UnknownResult
    ELSE LET given == Get(result_data.confidence)
             failure_type_str == Get(result_data.failure_type)
         IN  IF given.type = "null"
             THEN Escapes("TypeError")  \* float(None)
             ELSE IF given.type = "text"
             THEN UnknownResult         \* float("...") raises ValueError
             ELSE IF ~(0 <= given.value /\ given.value <= 100)
             THEN UnknownResult
             ELSE IF failure_type_str \notin FailureTypes
             THEN UnknownResult
             ELSE IF failure_type_str # "unknown" /\ given.value < MIN_CONFIDENCE
             THEN IF Get(result_data.reasoning) # "str"
                  THEN Escapes("TypeError")   \* None += str
                  ELSE [raised |-> "none",
                        result |-> Some([failure_type |-> "unknown",
                                         confidence |-> given.value])]
             ELSE [raised |-> "none",
                   result |-> Some([failure_type |-> failure_type_str,
                                    confidence |-> given.value])]

\* classify(pr_context, failed_checks, failure_logs), given the API outcome.
classify(response) ==
    IF response.error THEN UnknownResult
    ELSE IF response.content = <<>> THEN Escapes("IndexError")
    ELSE LET first_block == response.content[1]
         IN  IF first_block.text = None THEN UnknownResult
             ELSE LET response_text == Get(first_block.text).json
                  IN  IF response_text.kind = "invalid" THEN UnknownResult
                      ELSE classify_parsed(response_text)

\* classifier.classify(...) is called and returns or raises.
Classify ==
    /\ call.pc = "idle"
    /\ \E response \in ApiOutcomes :
          LET outcome == classify(response)
          IN  call' = [IdleCall EXCEPT
                         !.op = "classify",
                         !.arg = Some(response),
                         !.result = outcome.result,
                         !.raised = outcome.raised,
                         !.pc = IF outcome.raised = "none" THEN "returned"
                                ELSE "raised"]
    /\ UNCHANGED <<queue_vars, platform>>

NextClassify == Classify \/ CallDone

SpecClassify == InitOps /\ [][NextClassify]_vars

TypeOK ==
    /\ now \in 0..(MaxTicks * TickMinutes * 60)
    /\ current_run \in RunIds
    /\ \A p \in Repos :
          /\ pc[p] \in {"idle", "save_new", "enter", "loop", "call", "save",
                        "returned"}
          /\ should_advance[p] \in {"none", "true", "false"}
          /\ completed[p] \in {"none", "true", "false"}

\* ------------------------------------------------------------------ claims

\* The invocation of p holds a state with a queue of its repository.
HasQueue(p) == IsSome(state[p]) /\ p \in DOMAIN Get(state[p]).repo_queues
InMemQueue(p) == Get(state[p]).repo_queues[p]
Cursor(p) == InMemQueue(p).current_index
\* The queue entry of repository r in the durable document, None when the
\* document or the entry is absent.
DurableEntry(r) ==
    IF IsSome(durable) /\ r \in DOMAIN Get(durable).repo_queues
    THEN Some(Get(durable).repo_queues[r])
    ELSE None
\* process_repo_queue returned false because the timeout was approaching
\* (the other false return follows a should_advance = false).
TimeoutReturn(p) ==
    pc[p] = "returned" /\ completed[p] = "false" /\ should_advance[p] # "false"

\* C1: while the invocations of two different repositories run under the same
\* workflow run, no step of one changes or removes the other repository's
\* queue entry (its PR list and cursor) in the durable document.
C1_NoWriteLosesOtherRepo ==
    [][\A p \in Repos : \A r \in Repos \ {p} :
          (/\ pc'[p] # pc[p]
           /\ pc[p] # "idle" /\ pc[r] # "idle"
           /\ run_id[p] = run_id[r]
           /\ IsSome(DurableEntry(r)))
          => DurableEntry(r)' = DurableEntry(r)]_vars

\* C2: an invocation reports its repository's queue completed only if every
\* discovered PR of that repository has signalled advance under its run.
C2_CompletedOnlyIfAllAdvanced ==
    \A p \in Repos :
        completed[p] = "true" =>
            \A pr \in SeqRange(repo_prs(all_prs, p)) : pr.pr_number \in advanced[p]

\* C3: an invocation that resumes from the durable state never calls
\* process_pr on a PR that has already signalled advance under the run (counted
\* here, in the claim's favour, only once the save_state call of that step has
\* returned).
C3_NoReprocessingOnResume ==
    [][\A p \in Repos :
          (pc[p] = "call" /\ pc'[p] = "save" /\ resumed[p])
          => Get(get_current_pr(InMemQueue(p))).pr_number \notin advanced[p]]_vars

\* C4 as stated: exactly one save_state call lies between the return of a
\* process_pr call and the return of process_repo_queue or the next
\* process_pr call, so when process_repo_queue has returned after at least one
\* call, the saves made in the loop equal the calls made.
C4_ExactlyOneSaveBeforeReturn ==
    \A p \in Repos :
        (pc[p] = "returned" /\ calls[p] >= 1) => loop_saves[p] = calls[p]

\* C4 as amended: every process_pr call that has returned is followed by one
\* save_state call before the cursor moves, before the next process_pr call
\* and before process_repo_queue returns, whatever should_advance was; the
\* only other save of the loop is the one a timeout return makes. At the loop
\* top and at a call the saves made in the loop equal the calls made, after a
\* call one save is outstanding, and at the return they are equal again, plus
\* the one save of a timeout return.
C4_OneSavePerProcessedPR ==
    \A p \in Repos :
        /\ pc[p] \in {"loop", "call"} => loop_saves[p] = calls[p]
        /\ pc[p] = "save" => loop_saves[p] + 1 = calls[p]
        /\ pc[p] = "returned" =>
              loop_saves[p] = calls[p] + (IF TimeoutReturn(p) THEN 1 ELSE 0)

\* C4's case: process_repo_queue has returned after two process_pr calls, the
\* second of which answered false, with two saves made.
C4_Witness ==
    \E p \in Repos :
        /\ pc[p] = "returned" /\ should_advance[p] = "false"
        /\ calls[p] = 2 /\ loop_saves[p] = 2

\* C5: at every point of process_repo_queue the in-memory cursor of the
\* repository is at least, and at most one more than, the cursor stored for
\* it in the durable document (taken, in the claim's favour, only while the
\* document holds the repository's entry), so that an abrupt termination
\* loses at most the PR in flight: every PR whose step is over (it signalled
\* advance and the step's save_state returned) lies before the durable cursor.
C5_CursorDriftAtMostOne ==
    \A p \in Repos :
        (pc[p] \in {"loop", "call", "save"} /\ IsSome(DurableEntry(p))) =>
            /\ Get(DurableEntry(p)).current_index <= Cursor(p)
            /\ Cursor(p) <= Get(DurableEntry(p)).current_index + 1
            /\ \A i \in 1..Len(InMemQueue(p).prs) :
                  InMemQueue(p).prs[i].pr_number \in advanced[p]
                     => i <= Get(DurableEntry(p)).current_index

\* C6: at the moment process_repo_queue returns false, the durable cursor of
\* the repository equals the in-memory cursor, every PR before it has
\* signalled advance and the PR under it has not.
C6_ExactResumePosition ==
    [][\A p \in Repos :
          (pc[p] # "returned" /\ pc'[p] = "returned" /\ completed'[p] = "false")
          => /\ IsSome(DurableEntry(p)')
             /\ Get(DurableEntry(p)').current_index = Cursor(p)'
             /\ \A i \in 1..Len(InMemQueue(p)'.prs) :
                   (InMemQueue(p)'.prs[i].pr_number \in advanced'[p])
                      <=> (i <= Cursor(p)')]_vars

\* C7: a loop iteration that starts with the queue incomplete and the timeout
\* approaching saves the state and returns false; it makes no process_pr call
\* and leaves the in-memory state (cursor, completed_repos) as it was.
C7_TimeoutSavesAndSuspends ==
    [][\A p \in Repos :
          (/\ pc[p] = "loop" /\ pc'[p] \notin {"loop", "idle"}
           /\ ~is_complete(InMemQueue(p))
           /\ is_timeout_approaching(Get(state[p]), now))
          => /\ durable' = Some(Get(state[p]))
             /\ pc'[p] = "returned" /\ completed'[p] = "false"
             /\ calls'[p] = calls[p]
             /\ state'[p] = state[p]]_vars

\* C7's case: a timeout return after one PR has been processed and advanced.
C7_Witness ==
    \E p \in Repos :
        /\ TimeoutReturn(p) /\ calls[p] = 1 /\ Cursor(p) = 1
        /\ timeout_check[p] = Some(TRUE)
        /\ durable = Some(Get(state[p]))

\* C8: is_timeout_approaching returns true exactly when fewer than 10
\* minutes (600 seconds) remain until timeout_at: true at 5 minutes and after
\* the deadline, false at exactly 10 minutes and at 20 minutes.
C8_TimeoutThreshold ==
    \A p \in Repos :
        (IsSome(timeout_check[p]) /\ IsSome(state[p])) =>
            LET remaining_seconds == Get(state[p]).timeout_at - now
                result == Get(timeout_check[p])
            IN  /\ result <=> (remaining_seconds < 600)
                /\ remaining_seconds = 300 => result
                /\ remaining_seconds < 0 => result
                /\ remaining_seconds = 600 => ~result
                /\ remaining_seconds = 1200 => ~result

\* C8's case: the check made with exactly 10 minutes remaining answered false
\* for one invocation, and for the other it was made after the deadline.
C8_Witness ==
    \E p \in Repos : \E r \in Repos \ {p} :
        /\ timeout_check[p] = Some(FALSE)
        /\ Get(state[p]).timeout_at - now = 600
        /\ timeout_check[r] = Some(TRUE)
        /\ Get(state[r]).timeout_at - now = 300

\* C9: process_pr is called on the PR under the cursor only after every PR
\* before it in the queue has signalled advance; within an invocation the
\* cursor never decreases and moves by one, and only after process_pr
\* answered true; the cursor stored for the repository in the durable
\* document of a run never decreases.
C9_StrictQueueOrder ==
    [][\A p \in Repos :
          /\ (pc[p] = "call" /\ pc'[p] = "save") =>
                \A i \in 1..Cursor(p) :
                    InMemQueue(p).prs[i].pr_number \in advanced[p]
          /\ (HasQueue(p) /\ pc[p] # "idle" /\ pc'[p] # "idle") =>
                /\ HasQueue(p)'
                /\ Cursor(p)' \in {Cursor(p), Cursor(p) + 1}
                /\ Cursor(p)' = Cursor(p) + 1 =>
                      (pc[p] = "save" /\ should_advance[p] = "true")
          /\ (/\ IsSome(DurableEntry(p)) /\ IsSome(DurableEntry(p)')
              /\ Get(durable').workflow_run_id = Get(durable).workflow_run_id) =>
                Get(DurableEntry(p)').current_index
                   >= Get(DurableEntry(p)).current_index]_vars

\* C9's case: process_pr is being called on the second PR of a queue.
C9_Witness ==
    \E p \in Repos :
        pc[p] = "save" /\ Cursor(p) = 1 /\ calls[p] = 2 /\ advanced[p] = {1}

\* C10: once process_pr has answered should_advance = false, the invocation
\* only saves and returns false: the cursor stays, and no further process_pr
\* call is made in the invocation.
C10_NoSpinAfterRetry ==
    [][\A p \in Repos :
          (should_advance[p] = "false" /\ pc'[p] # "idle")
          => /\ pc[p] \in {"save", "returned"}
             /\ pc'[p] \in {pc[p], "returned"}
             /\ pc'[p] = "returned" => completed'[p] = "false"
             /\ calls'[p] = calls[p]
             /\ Cursor(p)' = Cursor(p)]_vars

\* C10's case: the second PR answered false and process_repo_queue returned
\* false with the cursor on it.
C10_Witness ==
    \E p \in Repos :
        /\ pc[p] = "returned" /\ completed[p] = "false"
        /\ should_advance[p] = "false" /\ calls[p] = 2 /\ Cursor(p) = 1

\* The repositories listed in the completed_repos of a state.
CompletedRepos(st) == SeqRange(st.completed_repos)

\* C11: called on a queue that started at cursor 0, process_repo_queue returns
\* false only if process_pr answered should_advance = false or the timeout was
\* approaching; when it returns true the queue is_complete and the repository
\* is in completed_repos; and once the repository is in completed_repos it
\* stays there with the queue complete, every further call on the same state
\* returning true without a process_pr call.
C11_AllAdvanceCompletes ==
    [][\A p \in Repos :
          /\ (HasQueue(p) /\ pc[p] # "returned" /\ pc'[p] = "returned") =>
                /\ completed'[p] = "false" =>
                      \/ should_advance[p] = "false"
                      \/ is_timeout_approaching(Get(state[p]), now)
                /\ completed'[p] = "true" =>
                      /\ is_complete(InMemQueue(p)')
                      /\ p \in CompletedRepos(Get(state'[p]))
          /\ (HasQueue(p) /\ p \in CompletedRepos(Get(state[p]))) =>
                /\ HasQueue(p)'
                /\ p \in CompletedRepos(Get(state'[p]))
                /\ is_complete(InMemQueue(p)')
                /\ pc'[p] \notin {"call", "save"}
                /\ pc'[p] = "returned" => completed'[p] = "true"]_vars

\* C11's case: a queue of 3 PRs whose process_pr calls all answered true, after
\* 3 successive process_repo_queue calls on the same state.
C11_Witness ==
    \E p \in Repos :
        /\ HasQueue(p) /\ pc[p] = "returned" /\ completed[p] = "true"
        /\ Len(InMemQueue(p).prs) = 3 /\ Cursor(p) = 3
        /\ advanced[p] = {1, 2, 3}
        /\ Len(Get(state[p]).completed_repos) = 3

\* Every repository listed in completed_repos of st is a key of repo_queues
\* whose queue is complete.
CompletedAreComplete(st) ==
    \A r \in CompletedRepos(st) :
        r \in DOMAIN st.repo_queues /\ is_complete(st.repo_queues[r])

\* C12: in every QueueState, the in-memory one of each invocation and the one
\* in the durable document, every repository listed in completed_repos is a
\* key of repo_queues whose queue is_complete.
C12_CompletedReposAreComplete ==
    /\ \A p \in Repos : IsSome(state[p]) => CompletedAreComplete(Get(state[p]))
    /\ IsSome(durable) => CompletedAreComplete(Get(durable))

\* C12's case: an invocation has drained a queue of two PRs and listed its
\* repository in completed_repos while the durable document exists.
C12_Witness ==
    \E p \in Repos :
        /\ HasQueue(p) /\ pc[p] = "returned" /\ calls[p] = 2
        /\ Get(state[p]).completed_repos = <<p>>
        /\ IsSome(durable)

\* The RepoQueue invariant: the cursor lies within 0..len(prs) and
\* is_complete holds exactly when it equals len(prs).
CursorInRange(queue) ==
    /\ 0 <= queue.current_index
    /\ queue.current_index <= Len(queue.prs)
    /\ is_complete(queue) <=> (queue.current_index = Len(queue.prs))

\* C13: every RepoQueue of every QueueState, in memory and in the durable
\* document, has 0 <= current_index <= len(prs) and is_complete exactly when
\* current_index = len(prs); no sequence of calls moves the cursor past
\* len(prs).
C13_CursorWithinQueue ==
    /\ \A p \in Repos : IsSome(state[p]) =>
          \A r \in DOMAIN Get(state[p]).repo_queues :
              CursorInRange(Get(state[p]).repo_queues[r])
    /\ IsSome(durable) =>
          \A r \in DOMAIN Get(durable).repo_queues :
              CursorInRange(Get(durable).repo_queues[r])

\* C13's case: a resumed invocation is back at the loop test with the cursor
\* at len(prs) after the last PR advanced.
C13_Witness ==
    \E p \in Repos :
        /\ HasQueue(p) /\ pc[p] = "loop" /\ resumed[p]
        /\ Len(InMemQueue(p).prs) = 2 /\ Cursor(p) = 2
        /\ should_advance[p] = "true"

\* Every repository queue of st is complete.
AllQueuesComplete(st) ==
    \A r \in DOMAIN st.repo_queues : is_complete(st.repo_queues[r])

\* C14: an invocation whose process_repo_queue call returned true with every
\* repository queue of its QueueState complete ends with the durable document
\* cleared.
C14_ClearedWhenAllComplete ==
    [][\A p \in Repos :
          (/\ pc[p] = "returned" /\ pc'[p] = "idle"
           /\ completed[p] = "true"
           /\ AllQueuesComplete(Get(state[p])))
          => durable' = None]_vars

\* C14's case: an invocation has drained its queue of two PRs, the last
\* incomplete one of its state, while the document is still stored.
C14_Witness ==
    \E p \in Repos :
        /\ HasQueue(p) /\ pc[p] = "returned" /\ completed[p] = "true"
        /\ Cursor(p) = 2 /\ AllQueuesComplete(Get(state[p]))
        /\ IsSome(durable)
        /\ \E r \in Repos \ {p} : repo_prs(all_prs, r) # <<>>

\* C15: an invocation that starts reuses the stored document exactly when
\* one exists and its workflow_run_id equals the invocation's run id; otherwise
\* its state is a fresh one built from its own PR list, which it saves before
\* it enters the queue, and no process_pr call is made before that save.
C15_ReuseIffSameRun ==
    [][\A p \in Repos :
          /\ (pc[p] = "idle" /\ pc'[p] # "idle") =>
                LET reuse == /\ IsSome(durable)
                             /\ Get(durable).workflow_run_id = run_id'[p]
                IN  /\ run_id'[p] = current_run
                    /\ resumed'[p] <=> reuse
                    /\ reuse => state'[p] = durable /\ pc'[p] = "enter"
                    /\ ~reuse =>
                          /\ state'[p] = Some(create_initial_state(run_id'[p],
                                                  repo_prs(all_prs, p), now))
                          /\ pc'[p] = "save_new"
                    /\ durable' = durable
          /\ (pc[p] = "save_new" /\ pc'[p] \notin {"save_new", "idle"}) =>
                /\ durable' = state[p]
                /\ state'[p] = state[p]
                /\ pc'[p] = "enter"
          /\ calls'[p] > calls[p] => pc[p] \notin {"idle", "save_new"}
          /\ pc[p] = "save_new" => calls[p] = 0 /\ ~resumed[p]]_vars

\* C15's case: an invocation of run 2 has discarded the stored document of
\* run 1 and is about to save its fresh state, while an invocation of run 1
\* that reused that document is still running.
C15_Witness ==
    \E p \in Repos : \E r \in Repos \ {p} :
        /\ pc[p] = "save_new" /\ run_id[p] = 2
        /\ IsSome(durable) /\ Get(durable).workflow_run_id = 1
        /\ resumed[r] /\ run_id[r] = 1 /\ pc[r] = "call"

\* The invocation of p was started with --all-prs text that is not JSON, or
\* without a GH_TOKEN.
BadInput(p) ==
    cli_input[p].all_prs_json = "malformed" \/ cli_input[p].gh_token # "set"

\* C16: an invocation given malformed JSON or no GH_TOKEN exits with status 1
\* without loading, saving or processing anything; an invocation whose
\* process_repo_queue call returned exits with status 0, whether the queue was
\* drained (true) or suspended (false: timeout approaching, or the PR not
\* ready to advance).
C16_ExitStatus ==
    [][\A p \in Repos :
          /\ (BadInput(p) /\ exit_code'[p] # exit_code[p]) =>
                /\ exit_code'[p] = Some(1)
                /\ durable' = durable
          /\ BadInput(p) => pc'[p] = "idle" /\ state'[p] = None
          /\ (pc[p] = "returned" /\ pc'[p] = "idle") =>
                /\ completed[p] \in {"true", "false"}
                /\ exit_code'[p] = Some(0)
          /\ exit_code'[p] # exit_code[p] =>
                \/ pc[p] = "idle"
                \/ pc[p] = "returned"]_vars

\* C16's case: an invocation has exited with status 0 after a timeout
\* suspension that left its queue in the document, and the other one, started
\* with malformed JSON, has exited with status 1.
C16_Witness ==
    \E p \in Repos : \E r \in Repos \ {p} :
        /\ pc[p] = "idle" /\ exit_code[p] = Some(0)
        /\ IsSome(DurableEntry(p)) /\ Get(DurableEntry(p)).current_index = 1
        /\ is_timeout_approaching(Get(durable), now)
        /\ cli_input[r].all_prs_json = "malformed" /\ exit_code[r] = Some(1)

\* C17: a failing external command inside a Status Poller or Workflow Client
\* operation never leaves the operation as a raised exception; the operation
\* returns its typed outcome (a tuple with booleans, an enum value, a
\* boolean, a string or None).
C17_NoExceptionEscapes ==
    /\ call.pc # "raised"
    /\ call.raised = "none"
    /\ call.pc = "returned" =>
          /\ call.op = "check_pr_status" =>
                /\ Get(call.result)[1] \in BOOLEAN
                /\ Get(call.result)[2] \in BOOLEAN
                /\ Get(call.result)[3] \in MergeableStates
          /\ call.op = "wait_for_checks_completion" =>
                Get(call.result) \in {"COMPLETED", "FAILED", "RUNNING", "NO_CHECKS"}
          /\ call.op = "poll_workflow_status" =>
                Get(call.result) \in {"SUCCESS", "FAILURE", "RUNNING",
                                      "CANCELLED", "UNKNOWN"}
          /\ call.op \in {"trigger_rebase", "auto_merge_pr"} =>
                Get(call.result) \in BOOLEAN
          /\ (call.op \in {"check_latest_comment", "get_pr_head_sha",
                            "trigger_fix_workflow"} /\ ~Get(call.reply).ok) =>
                Get(call.result) \in {"", "None"}

\* check_pr_status has returned.
StatusReturned == call.op = "check_pr_status" /\ call.pc = "returned"
\* The status_data of the last reply check_pr_status received.
LastStatusData == Get(Get(call.reply).data)

\* C18: whatever the platform replied, the mergeable component check_pr_status
\* returns is one of MERGEABLE, CONFLICTING, UNKNOWN.
C18_MergeableIsOneOfThree ==
    StatusReturned =>
        Get(call.result)[3] \in {"MERGEABLE", "CONFLICTING", "UNKNOWN"}

\* C18's case: check_pr_status has returned UNKNOWN after a last reply that
\* had no mergeable key.
C18_Witness ==
    /\ StatusReturned
    /\ Get(call.result)[3] = "UNKNOWN"
    /\ LastStatusData.mergeable = None

\* C19: check_pr_status returns mergeable = UNKNOWN exactly when it made 5
\* status queries and each observed UNKNOWN; all_passed and has_failures are
\* then those of the 5th observation.
C19_UnknownIffFiveUnknown ==
    StatusReturned =>
        LET result == Get(call.result)
            five_unknown ==
                /\ Len(call.cmds) = 5 /\ Len(call.observed) = 5
                /\ \A i \in 1..5 : call.observed[i] = "UNKNOWN"
        IN  /\ (result[3] = "UNKNOWN") <=> five_unknown
            /\ result[3] = "UNKNOWN" =>
                  /\ result[1] = all_passed_of(rollup_of(LastStatusData))
                  /\ result[2] = has_failures_of(rollup_of(LastStatusData))

\* C19's case: five queries observed UNKNOWN and the fifth saw a failed check.
C19_Witness ==
    /\ StatusReturned
    /\ Len(call.cmds) = 5 /\ call.attempt = 5
    /\ Get(call.result) = <<FALSE, TRUE, "UNKNOWN">>
    /\ LastStatusData.mergeable = Some("UNKNOWN")

\* C20: check_pr_status issues at most 5 status queries, issues one only
\* while every earlier query observed UNKNOWN, and at the first reply with a
\* definite mergeable value returns that reply's (all_passed, has_failures,
\* mergeable) without a further query.
C20_ReturnsAtFirstDefinite ==
    [][/\ call'.op = "check_pr_status" => Len(call'.cmds) <= 5
       /\ (call.op = "check_pr_status" /\ call'.op = "check_pr_status"
            /\ Len(call'.cmds) > Len(call.cmds)) =>
             /\ Len(call.observed) = Len(call.cmds)
             /\ \A i \in 1..Len(call.observed) : call.observed[i] = "UNKNOWN"
       /\ (call.op = "check_pr_status" /\ call.pc = "reply"
            /\ Get(call.reply).ok
            /\ LastStatusData.mergeable \in {Some("MERGEABLE"), Some("CONFLICTING")}) =>
             /\ call'.pc = "returned"
             /\ call'.cmds = call.cmds
             /\ call'.sleeps = call.sleeps
             /\ call'.result =
                   Some(<<all_passed_of(rollup_of(LastStatusData)),
                          has_failures_of(rollup_of(LastStatusData)),
                          Get(LastStatusData.mergeable)>>)
       /\ StatusReturned => call'.pc \in {"returned", "idle"}]_vars

\* C20's case: two queries observed UNKNOWN, the third CONFLICTING, and
\* check_pr_status returned after it.
C20_Witness ==
    /\ StatusReturned
    /\ Len(call.cmds) = 3
    /\ call.observed = <<"UNKNOWN", "UNKNOWN", "CONFLICTING">>
    /\ Get(call.result)[3] = "CONFLICTING"

\* The sum of a sequence of numbers.
RECURSIVE SumSeq(_)
SumSeq(s) == IF s = <<>> THEN 0 ELSE s[1] + SumSeq(Tail(s))

PassedOrSkipped(check) == check.conclusion \in {"SUCCESS", "NEUTRAL", "SKIPPED"}

\* C22: check_pr_status reports all_passed = true exactly when every check of
\* the rollup other than "Monitor Organization Bot PRs" has passed or been
\* skipped, and the conclusion of that excluded check never changes
\* all_passed.
C22_AllPassedIffPassedOrSkipped ==
    /\ StatusReturned =>
          LET rollup == rollup_of(LastStatusData)
          IN  Get(call.result)[1] =
                 (\A i \in 1..Len(rollup) :
                     rollup[i].name # MonitorCheck => PassedOrSkipped(rollup[i]))
    /\ StatusReturned =>
          LET rollup == rollup_of(LastStatusData)
          IN  \A i \in 1..Len(rollup) : \A c \in Conclusions :
                 rollup[i].name = MonitorCheck =>
                    all_passed_of([rollup EXCEPT ![i].conclusion = c])
                       = Get(call.result)[1]

\* The part of C22 that the code keeps: the excluded check's conclusion has
\* no influence on all_passed.
C22_ExcludedCheckIgnored ==
    StatusReturned =>
        LET rollup == rollup_of(LastStatusData)
        IN  \A i \in 1..Len(rollup) : \A c \in Conclusions :
               rollup[i].name = MonitorCheck =>
                  all_passed_of([rollup EXCEPT ![i].conclusion = c])
                     = Get(call.result)[1]

\* wait_for_checks_completion has returned the given status.
WaitReturned(status) ==
    /\ call.op = "wait_for_checks_completion"
    /\ call.pc = "returned"
    /\ call.result = Some(status)

\* C23: wait_for_checks_completion returns NO_CHECKS only when zero checks
\* were observed on every polling attempt of the call and more than 2
\* attempts were made.
C23_NoChecksOnlyIfNeverAnyCheck ==
    WaitReturned("NO_CHECKS") =>
        /\ Len(call.cmds) > 2
        /\ \A i \in 1..Len(call.observed) : call.observed[i] = "no_checks"

\* C24: for every timeout_minutes >= 0, wait_for_checks_completion returns
\* RUNNING only when the attempt budget of timeout_minutes*60/30 polls is
\* exhausted and the last poll observed a check still queued or in progress.
C24_RunningOnlyIfLastPollPending ==
    WaitReturned("RUNNING") =>
        /\ Len(call.cmds) = (Get(call.arg) * 60) \div 30
        /\ Len(call.observed) >= 1
        /\ call.observed[Len(call.observed)] = "running"

\* poll_workflow_status has returned the given status.
PollReturned(status) ==
    /\ call.op = "poll_workflow_status"
    /\ call.pc = "returned"
    /\ call.result = Some(status)

\* C25: poll_workflow_status returns SUCCESS, FAILURE or CANCELLED at the
\* first poll that observes the run in completed status, and returns RUNNING
\* only when the attempt budget is exhausted and no poll observed a
\* completed run.
C25_TerminalAtFirstCompleted ==
    call.op = "poll_workflow_status" =>
        /\ \A i \in 1..Len(call.observed) :
              call.observed[i] = "completed" =>
                 /\ i = Len(call.observed)
                 /\ call.pc = "returned"
                 /\ call.result \in {Some("SUCCESS"), Some("FAILURE"),
                                     Some("CANCELLED")}
        /\ PollReturned("RUNNING") =>
              /\ Len(call.cmds) = (Get(call.arg) * 60) \div 30
              /\ \A i \in 1..Len(call.observed) :
                    call.observed[i] # "completed"

\* C26: poll_workflow_status returns UNKNOWN if and only if a run-status
\* query fails; the first failing query ends polling at once: every query
\* before it succeeded, none follows it and no sleep follows it.
C26_UnknownIffQueryFailed ==
    call.op = "poll_workflow_status" =>
        /\ call.pc = "query" => Len(call.observed) = Len(call.cmds)
        /\ call.pc = "returned" =>
              (call.result = Some("UNKNOWN")
                  <=> (IsSome(call.reply) /\ ~Get(call.reply).ok))
        /\ PollReturned("UNKNOWN") =>
              /\ Len(call.observed) = Len(call.cmds) - 1
              /\ Len(call.sleeps) = Len(call.cmds) - 1

\* C26's case: the second query of a call failed, after one poll that saw
\* the run in progress and one sleep, and the call returned UNKNOWN.
C26_Witness ==
    /\ PollReturned("UNKNOWN")
    /\ ~Get(call.reply).ok
    /\ Len(call.cmds) = 2
    /\ call.observed = <<"in_progress">>
    /\ call.sleeps = <<30>>

\* The commands auto_merge_pr has issued include cmd.
Issued(cmd) == \E i \in 1..Len(call.cmds) : call.cmds[i] = cmd

\* C27: auto_merge_pr issues the approve command only when the PR is not
\* already approved; it issues the enable-auto-merge command only after the
\* approval succeeded or was skipped; it returns true only if every command
\* it issued succeeded; a failure returns false with no command issued after
\* it, so an approval already made is not undone.
C27_ApproveThenEnable ==
    call.op = "auto_merge_pr" =>
        /\ call.cmds \in {<<>>,
                          <<"gh pr view reviewDecision">>,
                          <<"gh pr view reviewDecision", "gh pr review --approve">>,
                          <<"gh pr view reviewDecision",
                            "gh pr merge --auto --squash">>,
                          <<"gh pr view reviewDecision", "gh pr review --approve",
                            "gh pr merge --auto --squash">>}
        /\ Issued("gh pr review --approve") =>
              Len(call.observed) >= 1 /\ call.observed[1] # "APPROVED"
        /\ Issued("gh pr merge --auto --squash") =>
              \/ call.observed[1] = "APPROVED"
              \/ Len(call.observed) >= 2 /\ call.observed[2] = "approved"
        /\ call.pc = "returned" =>
              /\ call.result \in {Some(TRUE), Some(FALSE)}
              /\ call.result = Some(TRUE) =>
                    /\ Len(call.observed) = Len(call.cmds)
                    /\ Get(call.reply).ok
                    /\ Issued("gh pr merge --auto --squash")
              /\ ~Get(call.reply).ok =>
                    /\ call.result = Some(FALSE)
                    /\ Len(call.observed) = Len(call.cmds) - 1

\* C27's case: the PR was not approved, the approval succeeded, enabling
\* auto-merge failed and the call returned false, the approval left in place.
C27_Witness ==
    /\ call.op = "auto_merge_pr"
    /\ call.pc = "returned"
    /\ call.result = Some(FALSE)
    /\ call.cmds = <<"gh pr view reviewDecision", "gh pr review --approve",
                     "gh pr merge --auto --squash">>
    /\ call.observed = <<"REVIEW_REQUIRED", "approved">>

\* C28: in the manual rebase of trigger_rebase (pre-commit bot author) the
\* steps run in the fixed order view PR, clone, configure, fetch branch,
\* checkout, fetch base, rebase, force-push with lease, each at most once; a
\* failure of any step returns false with no later step executed, so the
\* force-push is issued only after every previous step succeeded; for an
\* author other than the two supported bots trigger_rebase returns false
\* without issuing any command.
C28_ManualRebaseAbortsOnFailure ==
    call.op = "trigger_rebase" =>
        /\ Get(call.arg) = "app/pre-commit-ci" =>
              /\ Len(call.cmds) <= Len(ManualRebaseSteps)
              /\ call.cmds = SubSeq(ManualRebaseSteps, 1, Len(call.cmds))
              /\ (IsSome(call.reply) /\ ~Get(call.reply).ok) =>
                    /\ call.pc = "returned"
                    /\ call.result = Some(FALSE)
              /\ call.result = Some(TRUE) => call.cmds = ManualRebaseSteps
        /\ Get(call.arg) \notin {"app/dependabot", "app/pre-commit-ci"} =>
              /\ call.pc = "returned"
              /\ call.result = Some(FALSE)
              /\ call.cmds = <<>>

\* C29: check_latest_comment never raises; when the author has no comment
\* or the comment query fails it returns the empty string; a call changes no
\* state of the client or of the queue, however often it is made.
C29_LatestCommentNeverRaises ==
    /\ [](call.op = "check_latest_comment" =>
             /\ call.pc = "returned"
             /\ call.raised = "none"
             /\ (~Get(call.reply).ok \/ Get(call.reply).data = Some("")) =>
                   call.result = Some(""))
    /\ [][(call.op = "check_latest_comment" \/ call'.op = "check_latest_comment")
             => /\ UNCHANGED queue_vars
                /\ call = IdleCall \/ call' = IdleCall]_vars

\* C29's case: the comment query failed and the call returned "".
C29_Witness ==
    /\ call.op = "check_latest_comment"
    /\ call.pc = "returned"
    /\ ~Get(call.reply).ok
    /\ call.result = Some("")

\* process_pr was last called on the current PR of p, whose status was
\* all_passed = true and mergeable = MERGEABLE, and its result awaits the
\* save in process_repo_queue.
MergeableCase(p) ==
    /\ pc[p] = "save"
    /\ call.op = "process_pr"
    /\ call.pc = "returned"
    /\ Get(call.arg) = Get(get_current_pr(InMemQueue(p)))
    /\ Get(call.locals).all_passed
    /\ Get(call.locals).mergeable = "MERGEABLE"

\* C30: process_pr on a PR whose status is all_passed = true and mergeable =
\* MERGEABLE calls auto_merge_pr and returns should_advance = true whether
\* auto_merge_pr succeeded or failed, and process_repo_queue then moves the
\* cursor to the next PR.
C30_AdvanceWhateverMergeResult ==
    [][\A p \in Repos :
          MergeableCase(p) =>
             /\ call.cmds = <<"check_pr_status", "auto_merge_pr">>
             /\ call.observed \in {<<TRUE>>, <<FALSE>>}
             /\ call.result = Some(TRUE)
             /\ should_advance[p] = "true"
             /\ pc'[p] # pc[p] =>
                   /\ pc'[p] = "loop"
                   /\ Cursor(p)' = Cursor(p) + 1]_vars

\* C30's case: auto_merge_pr failed on a mergeable PR whose checks passed,
\* and the cursor of its queue has moved past that PR.
C30_Witness ==
    /\ call.op = "process_pr"
    /\ call.pc = "returned"
    /\ Get(call.locals).all_passed
    /\ Get(call.locals).mergeable = "MERGEABLE"
    /\ call.observed = <<FALSE>>
    /\ \E p \in Repos :
          /\ Get(call.arg).repo = p
          /\ Get(call.arg).pr_number \in advanced[p]
          /\ Cursor(p) = Get(call.arg).pr_number

\* The number of times process_pr called the named operation.
TimesCalled(op) == Cardinality({i \in 1..Len(call.cmds) : call.cmds[i] = op})

\* C31: for a PR with has_failures = true and no prior fix attempt,
\* process_pr triggers the fix workflow exactly once and returns
\* should_advance = false; a later invocation on the same PR with the same
\* head commit does not trigger it again, so no PR has two fix runs for one
\* head commit.
C31_OneFixPerHeadCommit ==
    /\ (call.op = "process_pr" /\ call.pc = "returned"
          /\ Get(call.locals).has_failures /\ ~Get(call.locals).prior_fix) =>
             /\ TimesCalled("trigger_fix_workflow") = 1
             /\ call.result = Some(FALSE)
    /\ \A pr \in PlatformPRs :
          \A i, j \in 1..Len(platform.fix_runs[pr]) :
             i # j => platform.fix_runs[pr][i] # platform.fix_runs[pr][j]

\* The part of C31 that holds: across invocations and pushes no PR gets two
\* fix runs for one head commit.
C31_AtMostOneFixRunPerHead ==
    \A pr \in PlatformPRs :
       \A i, j \in 1..Len(platform.fix_runs[pr]) :
          i # j => platform.fix_runs[pr][i] # platform.fix_runs[pr][j]

\* C32: classify returns a ClassificationResult for every API outcome and
\* never raises; on an API error, a non-text or empty response, invalid
\* JSON, a missing required field, a confidence outside [0, 1] or an unknown
\* failure_type the result is UNKNOWN with confidence 0.0.
C32_ClassifyNeverRaises ==
    call.op = "classify" =>
        /\ call.pc = "returned"
        /\ call.raised = "none"
        /\ IsSome(call.result)
        /\ LET response == Get(call.arg)
               json == Get(response.content[1].text).json
               unknown == Some([failure_type |-> "unknown", confidence |-> 0])
           IN  /\ response.error => call.result = unknown
               /\ (~response.error /\ response.content = <<>>) =>
                     call.result = unknown
               /\ (~response.error /\ response.content # <<>>) =>
                     /\ response.content[1].text = None => call.result = unknown
                     /\ response.content[1].text # None =>
                           /\ json.kind = "invalid" => call.result = unknown
                           /\ (json.kind = "object" /\
                               (\E f \in {"failure_type", "confidence",
                                          "reasoning", "recommended_action"} :
                                   json[f] = None)) => call.result = unknown
                           /\ (json.kind = "object" /\ json.confidence # None
                               /\ Get(json.confidence).type = "number"
                               /\ ~(0 <= Get(json.confidence).value
                                    /\ Get(json.confidence).value <= 100)
                               /\ json.failure_type # None
                               /\ json.reasoning # None
                               /\ json.recommended_action # None) =>
                                 call.result = unknown
                           /\ (json.kind = "object"
                               /\ json.failure_type = Some("bogus")
                               /\ json.confidence # None
                               /\ Get(json.confidence).type = "number"
                               /\ json.reasoning # None
                               /\ json.recommended_action # None) =>
                                 call.result = unknown

\* The invocation of p ends in this step, process_repo_queue having returned
\* true.
ExitsCompleted(p) ==
    pc[p] = "returned" /\ pc'[p] = "idle" /\ completed[p] = "true"

\* C33: when process_repo_queue returned true for a repository and the
\* durable document is not cleared afterwards, the document records the
\* outcome: the repository's persisted current_index equals len(prs) and the
\* repository is in the persisted completed_repos.
C33_DurableRecordsCompletion ==
    [][\A p \in Repos :
          (ExitsCompleted(p) /\ IsSome(durable')) =>
             /\ p \in DOMAIN Get(durable').repo_queues
             /\ is_complete(Get(durable').repo_queues[p])
             /\ p \in CompletedRepos(Get(durable'))]_vars

\* C34: clear_state is executed only when every repository queue stored in
\* the durable document at that moment is complete, so no invocation clears a
\* document in which another repository's queue is still incomplete.
C34_ClearOnlyWhenStoredQueuesComplete ==
    [][(IsSome(durable) /\ durable' = None) =>
          \A r \in DOMAIN Get(durable).repo_queues :
             is_complete(Get(durable).repo_queues[r])]_vars

\* C35: trigger_fix_workflow returns the id of the fix run this very call
\* started, also when another fix run was started between its trigger and its
\* lookup; it returns none when the trigger fails or no run is listed.
C35_ReturnsOwnRun ==
    (call.op = "trigger_fix_workflow" /\ call.pc = "returned") =>
       /\ call.result \in {Some("run of this call"), Some("None")}
       /\ (Len(call.cmds) = 1 => call.result = Some("None"))

\* No element occurs twice in the sequence.
NoDuplicates(seq) ==
    \A i, j \in 1..Len(seq) : seq[i] = seq[j] => i = j

\* C36: after any sequence of process_repo_queue calls on a state, calls on an
\* already complete queue included, completed_repos holds no repository
\* twice, so its length equals the number of queues only if every queue is
\* complete.
C36_CompletedReposNoDuplicates ==
    \A p \in Repos :
       IsSome(state[p]) =>
          LET st == Get(state[p])
          IN  /\ NoDuplicates(st.completed_repos)
              /\ (Len(st.completed_repos) = Cardinality(DOMAIN st.repo_queues)
                    => \A r \in DOMAIN st.repo_queues :
                          is_complete(st.repo_queues[r]))

\* process_pr raises in this step of the invocation of p.
ProcessPRRaises(p) == pc[p] = "call" /\ pc'[p] = "failed"

\* C37: if process_pr raises, process_repo_queue performs no save_state and no
\* cursor advance for that iteration and leaves completed_repos unchanged, the
\* durable document stays the last checkpoint written, and the invocation
\* exits with a non-zero status.
C37_RaiseLeavesCheckpoint ==
    /\ [][\A p \in Repos :
             ProcessPRRaises(p) =>
                /\ durable' = durable
                /\ loop_saves'[p] = loop_saves[p]
                /\ state'[p] = state[p]
                /\ advanced'[p] = advanced[p]
                /\ completed'[p] = completed[p]]_vars
    /\ [](\A p \in Repos :
             pc[p] = "failed" =>
                /\ IsSome(exit_code[p])
                /\ Get(exit_code[p]) # 0)

\* process_pr raised on the second PR, after the first was saved and passed.
C37_Witness ==
    \E p \in Repos :
       /\ pc[p] = "failed"
       /\ call.raised = "CalledProcessError"
       /\ loop_saves[p] = 1
       /\ IsSome(durable)
       /\ Get(state[p]).repo_queues[p].current_index = 1
       /\ Get(durable).repo_queues[p].current_index = 0

\* The invocation of p is inside process_repo_queue.
InProcessRepoQueue(p) == pc[p] \in {"enter", "loop", "call", "save"}

\* The queues of a state other than the one of repository p.
OtherQueues(st, p) ==
    [r \in DOMAIN st.repo_queues \ {p} |-> st.repo_queues[r]]

Pending(p) ==
    IF \/ pc[p] = "save"
       \/ pc[p] = "returned" /\ completed[p] = "false"
                             /\ should_advance[p] = "false"
    THEN 1 ELSE 0

\* The cursor the current process_repo_queue call of p started from: every
\* process_pr call it made but the pending one advanced the cursor by one.
EntryIndex(p) == Cursor(p) - (calls[p] - Pending(p))

\* C39: process_repo_queue terminates: provided each process_pr call returns,
\* it makes at most len(prs) - current_index process_pr calls, current_index
\* being the cursor at entry, and then returns true or false.
C39_Terminates ==
    /\ [](\A p \in Repos :
             HasQueue(p) =>
                /\ EntryIndex(p) >= 0
                /\ calls[p] <= Len(InMemQueue(p).prs) - EntryIndex(p))
    /\ [][\A p \in Repos :
             (HasQueue(p) /\ calls'[p] = calls[p] + 1) =>
                /\ Cursor(p) < Len(InMemQueue(p).prs)
                /\ EntryIndex(p)' = EntryIndex(p)]_vars
    /\ \A p \in Repos :
          (pc[p] = "enter") ~>
             (pc[p] = "returned" /\ completed[p] \in {"true", "false"})

\* A call entered at cursor 1 of a queue of 3 PRs that made its 2 process_pr
\* calls and returned true.
C39_Witness ==
    \E p \in Repos :
       /\ HasQueue(p) /\ pc[p] = "returned" /\ completed[p] = "true"
       /\ Len(InMemQueue(p).prs) = 3
       /\ EntryIndex(p) = 1 /\ calls[p] = 2

\* C40: no result of check_pr_status has both all_passed = true and
\* has_failures = true, whatever the rollup of the PR.
C40_NeverPassedAndFailed ==
    StatusReturned => ~(Get(call.result)[1] /\ Get(call.result)[2])

====
